---------------------------- MODULE Spec2Model ----------------------------
(* State-machine model of pkr-hand-parser: the hand-history parser         *)
(* (src/src/pkr_parser/hand_parser.py) and the preflop decision engine      *)
(* (decision_engine.py, equity_engine.py, ev_tools.py, turn_engine.py).    *)
(*                                                                         *)
(* Conventions                                                             *)
(*   - Python Optional values: None is <<>>, a present value x is <<x>>.   *)
(*   - Money amounts are integers (the smallest chip unit).                *)
(*   - Equities are integers in thousandths (0.612 is 612), fold equity    *)
(*     in hundredths, and an EV is an integer scaled by EqScale * FeScale. *)
(*     Threshold comparisons are made on the exact rational values.        *)
(*   - The two ratios the annotator also stamps on an action (amount_bb,   *)
(*     pct_pot) are pure functions of amount / big blind / pot_before and  *)
(*     are not carried in the Action record.                               *)
EXTENDS Integers, Sequences, FiniteSets, TLC

VARIABLES
    pc,                 \* position of the program
    street,             \* parse_actions: the current street tag
    actions,            \* the Action list of the hand being processed
    pots,               \* annotate_actions_with_pot_and_bb: returned street pots
    hero_name,          \* parse_hero: Optional name
    hero_cards,         \* parse_hero: hole cards (<<>> when no hero)
    hero_position,      \* Optional position label of the hero
    effective_stack_bb, \* compute_effective_stack_bb: Optional stack depth
    analysis,           \* Optional HeroPreflopAnalysis
    preflop_decision,   \* Optional preflop decision record
    flop_decision,      \* Optional flop decision record
    turn_decision,      \* Optional turn decision record
    hand_texts,         \* parse_file_to_hands: number of hand blocks of the file
    hands_objects,      \* parse_file_to_hands: Hand records built so far (their id)
    result,             \* parse_file_to_hands: "running", "returned" or "raised"
    seats,              \* assign_positions: set of occupied seats
    button_seat,        \* assign_positions: Optional button seat
    position,           \* assign_positions: seat -> Optional position label
    ordered_seats,      \* assign_positions: rotation built so far
    current,            \* assign_positions: loop cursor
    args,               \* a library function called on its own: Optional arguments
    ret,                \* ... and its Optional returned value
    default_rfi,        \* range_store: ranges/default_rfi.json, position -> Optional list
    user_rfi,           \* range_store: ranges/user_rfi.json, position -> Optional list
    cached_pack         \* range_store: _CACHED_PACK, Optional RangePack

vars == <<pc, street, actions, pots, hero_name, hero_cards, hero_position,
          effective_stack_bb, analysis, preflop_decision, flop_decision, turn_decision,
          hand_texts, hands_objects, result,
          seats, button_seat, position, ordered_seats, current,
          args, ret, default_rfi, user_rfi, cached_pack>>

handVars == <<hero_name, hero_cards, hero_position, effective_stack_bb>>
outVars  == <<analysis, preflop_decision, flop_decision, turn_decision>>
fileVars == <<hand_texts, hands_objects, result>>
posVars  == <<seats, button_seat, position, ordered_seats, current>>
callVars == <<args, ret>>
storeVars == <<default_rfi, user_rfi, cached_pack>>

-----------------------------------------------------------------------------
(* Bounds of the model *)

MaxPotActions == 2      \* longest action list fed to the pot annotator
MaxAmount     == 2      \* largest amount on an action line
MaxSeat       == 7      \* highest seat number at the table
MaxPreActions == 4      \* longest preflop action list fed to the preflop analyzer

-----------------------------------------------------------------------------
(* Optional values *)

None      == <<>>
Some(x)   == <<x>>
IsNone(o) == o = <<>>
IsSome(o) == o /= <<>>
Val(o)    == o[1]

Max(a, b) == IF a >= b THEN a ELSE b
Min(a, b) == IF a <= b THEN a ELSE b

-----------------------------------------------------------------------------
(* Data model *)

StreetSet   == {"preflop", "flop", "turn", "river"}
Hero        == "Hero"

StreetIndex(s) == CHOOSE i \in 1..4 : <<"preflop", "flop", "turn", "river">>[i] = s

-----------------------------------------------------------------------------
(* parse_actions: one line of the forward scan *)

Markers == {"HOLE CARDS", "FLOP", "TURN", "RIVER", "SHOW DOWN"}

\* the street a "*** ... ***" marker line switches to
MarkerStreet(m, cur) ==
    IF m = "HOLE CARDS" THEN "preflop"
    ELSE IF m = "FLOP" THEN "flop"
    ELSE IF m = "TURN" THEN "turn"
    ELSE IF m = "RIVER" THEN "river"
    ELSE cur

ParseStreetMarker(m) ==
    /\ pc = "parse"
    /\ street' = MarkerStreet(m, street)
    /\ UNCHANGED <<pc, actions, pots, handVars, outVars, fileVars, posVars, callVars, storeVars>>

ParseActionLine(p, k, a) ==
    /\ pc = "parse"
    /\ actions' = Append(actions,
                          [street |-> street, player |-> p, action |-> k,
                           amount |-> IF k \in {"check", "fold"} THEN None ELSE Some(a),
                           pot_before |-> None, pot_after |-> None])
    /\ UNCHANGED <<pc, street, pots, handVars, outVars, fileVars, posVars, callVars, storeVars>>

-----------------------------------------------------------------------------
(* annotate_actions_with_pot_and_bb *)

NoPots == [s \in StreetSet |-> None]
NoCommitted == [p \in {Hero} \union {"V1", "V2"} |-> 0]

\* fix_street
FixStreet(ps, street_name, pot_value) ==
    [ps EXCEPT ![street_name] = Some(pot_value)]

\* PotDelta with a raise adding its full amount
PotDeltaRaiseFull(act, committed) ==
    IF IsNone(act.amount) THEN 0
    ELSE IF act.action \in {"post_sb", "post_bb", "bet", "call", "raise"} THEN Val(act.amount)
    ELSE IF act.action = "uncalled" THEN 0 - Val(act.amount)
    ELSE 0

\* the change of current_pot made by one action, given the committed map
PotDelta(act, committed) ==
    IF IsNone(act.amount) THEN 0
    ELSE IF act.action \in {"post_sb", "post_bb", "bet", "call"} THEN Val(act.amount)
    ELSE IF act.action = "raise" THEN Max(Val(act.amount) - committed[act.player], 0)
    ELSE IF act.action = "uncalled" THEN 0 - Val(act.amount)
    ELSE 0

\* the committed map after one action
CommitAfter(act, committed) ==
    IF IsNone(act.amount) THEN committed
    ELSE IF act.action \in {"post_sb", "post_bb", "bet", "call"}
         THEN [committed EXCEPT ![act.player] = @ + Val(act.amount)]
    ELSE IF act.action = "raise"
         THEN [committed EXCEPT ![act.player] = Val(act.amount)]
    ELSE committed

\* the committed map an iteration starts from: emptied at a street change
CommitAtStreet(act, st) ==
    IF act.street /= st.current_street THEN NoCommitted ELSE st.committed

\* AnnotateIter with the running pot restarted at every street change
AnnotateIterPotPerStreet(st, act) ==
    LET changed   == act.street /= st.current_street
        committed == CommitAtStreet(act, st)
        before    == IF changed THEN 0 ELSE st.current_pot
        after     == before + PotDelta(act, committed)
    IN  [current_pot    |-> after,
         current_street |-> act.street,
         committed      |-> CommitAfter(act, committed),
         pots           |-> IF changed
                            THEN FixStreet(st.pots, st.current_street, st.current_pot)
                            ELSE st.pots,
         out            |-> Append(st.out,
                                   [act EXCEPT !.pot_before = Some(before),
                                               !.pot_after  = Some(after)])]

\* one iteration of the for loop over the loop state st
AnnotateIter(st, act) ==
    LET changed   == act.street /= st.current_street
        committed == CommitAtStreet(act, st)
        before    == st.current_pot
        after     == before + PotDelta(act, committed)
    IN  [current_pot    |-> after,
         current_street |-> act.street,
         committed      |-> CommitAfter(act, committed),
         pots           |-> IF changed
                            THEN FixStreet(st.pots, st.current_street, st.current_pot)
                            ELSE st.pots,
         out            |-> Append(st.out,
                                   [act EXCEPT !.pot_before = Some(before),
                                               !.pot_after  = Some(after)])]

RECURSIVE AnnotateLoop(_, _, _)
AnnotateLoop(acts, i, st) ==
    IF i > Len(acts) THEN st
    ELSE AnnotateLoop(acts, i + 1, AnnotateIter(st, acts[i]))

\* the whole function: the annotated list and the returned pots
AnnotateActions(acts) ==
    IF acts = <<>> THEN [out |-> acts, pots |-> NoPots]
    ELSE LET fin == AnnotateLoop(acts, 1,
                        [current_pot |-> 0, current_street |-> acts[1].street,
                         committed |-> NoCommitted, pots |-> NoPots, out |-> <<>>])
         IN  [out  |-> fin.out,
              pots |-> FixStreet(fin.pots, fin.current_street, fin.current_pot)]

Annotate ==
    /\ pc = "parse"
    /\ actions' = AnnotateActions(actions).out
    /\ pots' = AnnotateActions(actions).pots
    /\ pc' = "annotated"
    /\ UNCHANGED <<street, handVars, outVars, fileVars, posVars, callVars, storeVars>>

-----------------------------------------------------------------------------
(* State common to every specification before anything has run *)

InitHand ==
    /\ street = "preflop"
    /\ actions = <<>>
    /\ pots = NoPots
    /\ hero_name = None
    /\ hero_cards = <<>>
    /\ hero_position = None
    /\ effective_stack_bb = None
    /\ analysis = None
    /\ preflop_decision = None
    /\ flop_decision = None
    /\ turn_decision = None

InitFile ==
    /\ hand_texts = 0
    /\ hands_objects = <<>>
    /\ result = "running"

InitSeats ==
    /\ seats = {}
    /\ button_seat = None
    /\ position = <<>>
    /\ ordered_seats = <<>>
    /\ current = 0

\* no library call in flight
InitCall ==
    /\ args = None
    /\ ret = None

\* the range files absent and nothing cached
InitStore ==
    /\ default_rfi = <<>>
    /\ user_rfi = <<>>
    /\ cached_pack = None

\* a marker line of a later street than the current one
ForwardMarker(m) == StreetIndex(MarkerStreet(m, street)) > StreetIndex(street)

-----------------------------------------------------------------------------
(* SpecPot: the pot annotator over every short action list of two players *)

InitPot == pc = "parse" /\ InitHand /\ InitFile /\ InitSeats /\ InitCall /\ InitStore

PotParseMarker == \E m \in Markers : ForwardMarker(m) /\ ParseStreetMarker(m)

PotParseLine ==
    /\ Len(actions) < MaxPotActions
    /\ \E p \in {Hero, "V1"},
          k \in {"post_sb", "post_bb", "bet", "raise", "call", "check", "fold", "uncalled"},
          a \in 1..MaxAmount :
          ParseActionLine(p, k, a)

NextPot == PotParseMarker \/ PotParseLine \/ Annotate

SpecPot == InitPot /\ [][NextPot]_vars

\* C1: after annotation the pot is continuous: the first action starts from
\* pot 0 and every later action's pot_before is the pot_after of the action
\* before it (so also across a street boundary).
C1_PotContinuity ==
    pc = "annotated" =>
        /\ actions /= <<>> => actions[1].pot_before = Some(0)
        /\ \A i \in 2..Len(actions) : actions[i].pot_before = actions[i-1].pot_after

\* a street boundary inside an annotated list with money already in the pot
C1_Witness ==
    /\ pc = "annotated"
    /\ \E i \in 2..Len(actions) :
          /\ actions[i].street /= actions[i-1].street
          /\ Val(actions[i].pot_before) > 0

\* what player p has committed on the street of action k before action k:
\* nothing when action k opens a street, otherwise the commitment before the
\* previous action, raised by that action when it is a post, bet or call of
\* p and replaced by its amount when it is a raise of p
RECURSIVE C22_Committed(_, _)
C22_Committed(k, p) ==
    IF k = 1 \/ actions[k].street /= actions[k-1].street THEN 0
    ELSE LET prev == actions[k-1]
             c    == C22_Committed(k - 1, p)
         IN  IF prev.player /= p \/ IsNone(prev.amount) THEN c
             ELSE IF prev.action \in {"post_sb", "post_bb", "bet", "call"}
                  THEN c + Val(prev.amount)
             ELSE IF prev.action = "raise" THEN Val(prev.amount)
             ELSE c

C2_PotNeverNegative ==
    pc = "annotated" =>
        \A i \in 1..Len(actions) :
            /\ Val(actions[i].pot_before) >= 0
            /\ Val(actions[i].pot_after) >= 0
            /\ actions[i].action /= "uncalled" =>
                  Val(actions[i].pot_after) >= Val(actions[i].pot_before)

-----------------------------------------------------------------------------
(* assign_positions *)

SetMin(S) == CHOOSE x \in S : \A y \in S : x <= y

\* PosNames with the five-handed table ending in CO instead of MP
PosNamesFiveHandedCO(n) ==
    IF n = 1 THEN <<"BTN">>
    ELSE IF n = 2 THEN <<"BTN", "BB">>
    ELSE IF n = 3 THEN <<"BTN", "SB", "BB">>
    ELSE IF n = 4 THEN <<"BTN", "SB", "BB", "UTG">>
    ELSE IF n = 5 THEN <<"BTN", "SB", "BB", "UTG", "CO">>
    ELSE <<"BTN", "SB", "BB", "UTG", "MP", "CO">>

\* the fixed label table indexed by the number of seated players
PosNames(n) ==
    IF n = 1 THEN <<"BTN">>
    ELSE IF n = 2 THEN <<"BTN", "BB">>
    ELSE IF n = 3 THEN <<"BTN", "SB", "BB">>
    ELSE IF n = 4 THEN <<"BTN", "SB", "BB", "UTG">>
    ELSE IF n = 5 THEN <<"BTN", "SB", "BB", "UTG", "MP">>
    ELSE <<"BTN", "SB", "BB", "UTG", "MP", "CO">>

\* the guards before the rotation: no players, no button, button seat empty
AssignStart ==
    /\ pc = "assign"
    /\ IF seats = {} \/ IsNone(button_seat) \/ Val(button_seat) \notin seats
       THEN /\ pc' = "assigned"
            /\ UNCHANGED <<ordered_seats, current>>
       ELSE /\ ordered_seats' = <<Val(button_seat)>>
            /\ current' = Val(button_seat)
            /\ pc' = "rotate"
    /\ UNCHANGED <<street, actions, pots, handVars, outVars, fileVars,
                   seats, button_seat, position, callVars, storeVars>>

\* one iteration of the while loop
AssignRotate ==
    /\ pc = "rotate"
    /\ Len(ordered_seats) < Cardinality(seats)
    /\ LET bigger == {s \in seats : s > current}
           nxt    == IF bigger /= {} THEN SetMin(bigger) ELSE SetMin(seats)
       IN  /\ ordered_seats' =
                 IF \E i \in 1..Len(ordered_seats) : ordered_seats[i] = nxt
                 THEN ordered_seats
                 ELSE Append(ordered_seats, nxt)
           /\ current' = nxt
    /\ UNCHANGED <<pc, street, actions, pots, handVars, outVars, fileVars,
                   seats, button_seat, position, callVars, storeVars>>

\* zip(ordered_seats, pos_names): the labels are written to the players
AssignLabels ==
    /\ pc = "rotate"
    /\ Len(ordered_seats) >= Cardinality(seats)
    /\ LET n     == Len(ordered_seats)
           names == SubSeq(PosNames(n), 1, Min(n, Len(PosNames(n))))
       IN  position' =
              [s \in seats |->
                  IF \E i \in 1..Min(n, Len(names)) : ordered_seats[i] = s
                  THEN Some(names[CHOOSE i \in 1..Min(n, Len(names)) : ordered_seats[i] = s])
                  ELSE position[s]]
    /\ pc' = "assigned"
    /\ UNCHANGED <<street, actions, pots, handVars, outVars, fileVars,
                   seats, button_seat, ordered_seats, current, callVars, storeVars>>

-----------------------------------------------------------------------------
(* SpecPos: assign_positions over every table of seats 1..MaxSeat *)

InitPos ==
    /\ pc = "assign"
    /\ InitHand /\ InitFile /\ InitCall /\ InitStore
    /\ seats \in SUBSET (1..MaxSeat)
    /\ button_seat \in {None} \union {Some(b) : b \in 1..MaxSeat}
    /\ position = [s \in seats |-> None]
    /\ ordered_seats = <<>>
    /\ current = 0

NextPos == AssignStart \/ AssignRotate \/ AssignLabels

SpecPos == InitPos /\ [][NextPos]_vars

\* the number of occupied seats met strictly before seat s when walking up
\* from the button and wrapping from the highest seat to the lowest
C5_Walk(s) ==
    LET b == Val(button_seat)
        d(t) == IF t >= b THEN t - b ELSE t - b + MaxSeat + 1
    IN  Cardinality({t \in seats : d(t) < d(s)})

C5_Labels(n) ==
    IF n = 2 THEN <<"BTN", "BB">>
    ELSE SubSeq(<<"BTN", "SB", "BB", "UTG", "MP", "CO">>, 1, n)

\* C5: with the button seat occupied and 2..6 players, the i-th seat of the
\* walk from the button (ascending, wrapping) carries the i-th label of the
\* table for that player count.
C5_PositionRotation ==
    (/\ pc = "assigned"
     /\ IsSome(button_seat)
     /\ Val(button_seat) \in seats
     /\ Cardinality(seats) \in 2..6)
    => \A s \in seats :
          position[s] = Some(C5_Labels(Cardinality(seats))[C5_Walk(s) + 1])

\* the example of the specification: seats 1..6, button 4, a wrap past seat 6
C5_Witness ==
    /\ pc = "assigned"
    /\ seats = 1..6
    /\ button_seat = Some(4)
    /\ ordered_seats = <<4, 5, 6, 1, 2, 3>>
    /\ position[3] = Some("CO")

\* C29: whenever the button seat is occupied, every seated player gets a
\* position label and no label is shared by two players, also at tables with
\* more than 6 players.
C29_EveryPlayerLabelled ==
    (/\ pc = "assigned"
     /\ IsSome(button_seat)
     /\ Val(button_seat) \in seats)
    => /\ \A s \in seats : IsSome(position[s])
       /\ \A s, t \in seats : (s /= t) => position[s] /= position[t]

-----------------------------------------------------------------------------
(* compute_hero_preflop_analysis *)

OnStreet(acts, st) == SelectSeq(acts, LAMBDA a : a.street = st)

\* list.index(x): the first position holding a record equal to x
IndexOf(seq, x) ==
    CHOOSE i \in 1..Len(seq) : seq[i] = x /\ \A j \in 1..(i-1) : seq[j] /= x

\* the hero's preflop actions other than blinds and uncalled returns
HeroPreflopActions(acts, hero) ==
    SelectSeq(OnStreet(acts, "preflop"),
              LAMBDA a : a.player = hero
                         /\ a.action \notin {"uncalled", "post_sb", "post_bb"})

FacingRaises(prior) == Len(SelectSeq(prior, LAMBDA a : a.action = "raise"))

SetMax(S) == CHOOSE x \in S : \A y \in S : x >= y

\* FacingCallers counting every prior call, also those before the last raise
FacingCallersAllCalls(prior) ==
    Len(SelectSeq(prior, LAMBDA a : a.action = "call"))

FacingCallers(prior) ==
    LET raise_idx == {i \in 1..Len(prior) : prior[i].action = "raise"}
    IN  IF raise_idx /= {}
        THEN Cardinality({i \in 1..Len(prior) :
                              i > SetMax(raise_idx) /\ prior[i].action = "call"})
        ELSE Len(SelectSeq(prior, LAMBDA a : a.action = "call"))

\* ClassifyPreflop with every unraised raise an open_raise, callers or not
ClassifyPreflopNoIso(kind, facing_raises, facing_callers) ==
    IF kind = "fold" THEN "fold_preflop"
    ELSE IF kind = "call" THEN
        IF facing_raises = 0
        THEN (IF facing_callers = 0 THEN "open_limp" ELSE "overlimp")
        ELSE (IF facing_raises = 1 THEN "call_vs_raise" ELSE "call_vs_3bet_plus")
    ELSE IF kind = "raise" THEN
        IF facing_raises = 0 THEN "open_raise"
        ELSE IF facing_raises = 1 THEN "3bet"
        ELSE IF facing_raises = 2 THEN "4bet"
        ELSE "5bet_plus"
    ELSE "unknown"

\* the action-type table
ClassifyPreflop(kind, facing_raises, facing_callers) ==
    IF kind = "fold" THEN "fold_preflop"
    ELSE IF kind = "call" THEN
        IF facing_raises = 0
        THEN (IF facing_callers = 0 THEN "open_limp" ELSE "overlimp")
        ELSE (IF facing_raises = 1 THEN "call_vs_raise" ELSE "call_vs_3bet_plus")
    ELSE IF kind = "raise" THEN
        IF facing_raises = 0
        THEN (IF facing_callers = 0 THEN "open_raise" ELSE "iso_raise")
        ELSE IF facing_raises = 1 THEN "3bet"
        ELSE IF facing_raises = 2 THEN "4bet"
        ELSE "5bet_plus"
    ELSE "unknown"

EmptyAnalysis(pos, eff) ==
    [action_type |-> None, was_first_in |-> None, facing_raises |-> 0,
     facing_callers |-> 0, villain_raiser |-> None, hero_position |-> pos,
     effective_stack_bb |-> eff]

\* the returned Optional HeroPreflopAnalysis
HeroPreflopAnalysis(acts, hero, pos, eff) ==
    IF IsNone(hero) THEN None
    ELSE IF OnStreet(acts, "preflop") = <<>> THEN Some(EmptyAnalysis(pos, eff))
    ELSE IF HeroPreflopActions(acts, Val(hero)) = <<>> THEN Some(EmptyAnalysis(pos, eff))
    ELSE LET hero_first == HeroPreflopActions(acts, Val(hero))[1]
             pre        == OnStreet(acts, "preflop")
             prior      == SubSeq(pre, 1, IndexOf(pre, hero_first) - 1)
             raise_idx  == {i \in 1..Len(prior) : prior[i].action = "raise"}
         IN  Some([action_type    |-> Some(ClassifyPreflop(hero_first.action,
                                                FacingRaises(prior), FacingCallers(prior))),
                   was_first_in   |-> Some(\A i \in 1..Len(prior) :
                                             prior[i].action \notin {"bet", "raise", "call"}),
                   facing_raises  |-> FacingRaises(prior),
                   facing_callers |-> FacingCallers(prior),
                   villain_raiser |-> IF raise_idx /= {}
                                      THEN Some(prior[SetMax(raise_idx)].player)
                                      ELSE None,
                   hero_position  |-> pos,
                   effective_stack_bb |-> eff])

ComputeHeroPreflopAnalysis ==
    /\ pc = "annotated"
    /\ analysis' = HeroPreflopAnalysis(actions, hero_name, hero_position,
                                     effective_stack_bb)
    /\ pc' = "analysed"
    /\ UNCHANGED <<street, actions, pots, handVars, preflop_decision,
                   flop_decision, turn_decision, fileVars, posVars, callVars, storeVars>>

-----------------------------------------------------------------------------
(* SpecPre: the preflop analyzer over every short preflop action list *)

InitPre ==
    /\ pc = "parse"
    /\ street = "preflop"
    /\ actions = <<>>
    /\ pots = NoPots
    /\ hero_name = Some(Hero)
    /\ hero_cards = <<<<"T", "d">>, <<"T", "h">>>>
    /\ hero_position = Some("BTN")
    /\ effective_stack_bb = None
    /\ analysis = None
    /\ preflop_decision = None
    /\ flop_decision = None
    /\ turn_decision = None
    /\ InitFile /\ InitSeats /\ InitCall /\ InitStore

\* a preflop line: every kind the analyzer tells apart, for the hero and for
\* one opponent
PreParseLine ==
    /\ Len(actions) < MaxPreActions
    /\ \E l \in ({Hero} \X {"post_bb", "fold", "call", "raise", "check", "uncalled"})
                  \union ({"V1"} \X {"post_sb", "fold", "call", "raise", "bet"}) :
          ParseActionLine(l[1], l[2], 1)

NextPre == PreParseLine \/ Annotate \/ ComputeHeroPreflopAnalysis

SpecPre == InitPre /\ [][NextPre]_vars

\* the position, in the whole list, of the hero's first preflop action that is
\* neither a blind post nor an uncalled return (0 when there is none)
C_HeroFirstIdx ==
    LET I == {i \in 1..Len(actions) :
                 /\ actions[i].street = "preflop"
                 /\ actions[i].player = Hero
                 /\ actions[i].action \notin {"post_sb", "post_bb", "uncalled"}}
    IN  IF I = {} THEN 0 ELSE SetMin(I)

\* R: the raises before the hero's first action
C_PriorRaises ==
    {i \in 1..(C_HeroFirstIdx - 1) : actions[i].action = "raise"}

\* C: the calls before the hero's first action that come after the last raise
C_PriorCallers ==
    {i \in 1..(C_HeroFirstIdx - 1) :
        /\ actions[i].action = "call"
        /\ \A j \in C_PriorRaises : j < i}

C6_Table(kind, R, C) ==
    CASE kind = "fold" -> "fold_preflop"
      [] kind = "call" /\ R = 0 /\ C = 0 -> "open_limp"
      [] kind = "call" /\ R = 0 /\ C >= 1 -> "overlimp"
      [] kind = "call" /\ R = 1 -> "call_vs_raise"
      [] kind = "call" /\ R >= 2 -> "call_vs_3bet_plus"
      [] kind = "raise" /\ R = 0 /\ C = 0 -> "open_raise"
      [] kind = "raise" /\ R = 0 /\ C >= 1 -> "iso_raise"
      [] kind = "raise" /\ R = 1 -> "3bet"
      [] kind = "raise" /\ R = 2 -> "4bet"
      [] kind = "raise" /\ R >= 3 -> "5bet_plus"

\* C6: the hero's first voluntary preflop action (fold, call or raise) is
\* classified from the numbers R of prior raises and C of prior callers
\* exactly by the table of the preflop analyzer.
C6_ActionTypeTable ==
    (/\ pc = "analysed"
     /\ C_HeroFirstIdx > 0
     /\ actions[C_HeroFirstIdx].action \in {"fold", "call", "raise"})
    => Val(analysis).action_type =
          Some(C6_Table(actions[C_HeroFirstIdx].action,
                        Cardinality(C_PriorRaises), Cardinality(C_PriorCallers)))

\* a hero 5-bet: three raises stand before the hero's raise
C6_Witness ==
    /\ pc = "analysed"
    /\ C_HeroFirstIdx > 0
    /\ actions[C_HeroFirstIdx].action = "raise"
    /\ Cardinality(C_PriorRaises) = 3
    /\ Val(analysis).action_type = Some("5bet_plus")

\* C7: was_first_in holds iff no bet, raise or call stands before the hero's
\* first voluntary action; facing_raises counts the raises before it and
\* facing_callers the calls before it that follow the last such raise.
C7_FirstInAndFacing ==
    (pc = "analysed" /\ C_HeroFirstIdx > 0)
    => /\ Val(analysis).was_first_in =
             Some(\A i \in 1..(C_HeroFirstIdx - 1) :
                      actions[i].action \notin {"bet", "raise", "call"})
       /\ Val(analysis).facing_raises = Cardinality(C_PriorRaises)
       /\ Val(analysis).facing_callers = Cardinality(C_PriorCallers)

\* a call, then a raise, then a call, then the hero: one caller is counted
C7_Witness ==
    /\ pc = "analysed"
    /\ Len(actions) = 4
    /\ C_HeroFirstIdx = 4
    /\ actions[1].action = "call"
    /\ actions[2].action = "raise"
    /\ actions[3].action = "call"
    /\ Val(analysis).facing_callers = 1
    /\ Val(analysis).facing_raises = 1
    /\ Val(analysis).was_first_in = Some(FALSE)

\* C30: in every analysis the preflop analyzer returns, an action type of
\* open_raise or open_limp implies was_first_in is true, and was_first_in true
\* implies facing_raises = 0 and facing_callers = 0, for every action sequence
\* the line parser can produce (a "bet" before the hero's first action too).
C30_FirstInConsistent ==
    (pc = "analysed" /\ IsSome(analysis))
    => /\ (Val(analysis).action_type \in {Some("open_raise"), Some("open_limp")})
              => Val(analysis).was_first_in = Some(TRUE)
       /\ (Val(analysis).was_first_in = Some(TRUE))
              => /\ Val(analysis).facing_raises = 0
                 /\ Val(analysis).facing_callers = 0

-----------------------------------------------------------------------------
(* equity_engine.py: hand key, MOS minimum position, preflop equity *)

RANKS == <<"2", "3", "4", "5", "6", "7", "8", "9", "T", "J", "Q", "K", "A">>

\* RANK_TO_INDEX
RankToIndex(r) == CHOOSE i \in 1..13 : RANKS[i] = r

\* _get_rank: card[0].upper(), on the rank characters a card can carry
GetRank(card) ==
    CASE card[1] = "a" -> "A"
      [] card[1] = "k" -> "K"
      [] card[1] = "q" -> "Q"
      [] card[1] = "j" -> "J"
      [] card[1] = "t" -> "T"
      [] OTHER -> card[1]

\* _get_suit: card[1].lower()
GetSuit(card) ==
    CASE card[2] = "H" -> "h"
      [] card[2] = "D" -> "d"
      [] card[2] = "C" -> "c"
      [] card[2] = "S" -> "s"
      [] OTHER -> card[2]

\* normalize_hand_key without the sort by rank
normalize_hand_key_InputOrder(cards) ==
    LET r1 == GetRank(cards[1])
        s1 == GetSuit(cards[1])
        r2 == GetRank(cards[2])
        s2 == GetSuit(cards[2])
    IN  IF r1 = r2 THEN r1 \o r2
        ELSE r1 \o r2 \o (IF s1 = s2 THEN "s" ELSE "o")

\* a card is <<rank character, suit character>>; the key of two cards
normalize_hand_key(cards) ==
    LET r1 == GetRank(cards[1])
        s1 == GetSuit(cards[1])
        r2 == GetRank(cards[2])
        s2 == GetSuit(cards[2])
    IN  IF r1 = r2 THEN r1 \o r2
        ELSE IF RankToIndex(r1) > RankToIndex(r2)
             THEN r1 \o r2 \o (IF s1 = s2 THEN "s" ELSE "o")
             ELSE r2 \o r1 \o (IF s2 = s1 THEN "s" ELSE "o")

RFI_MOS_ORDER == <<"EP", "MP", "HJ", "CO">>

RFI_MOS_RANGES ==
    [EP |-> {"22", "33", "44", "55", "66",
             "76s", "77", "87s", "88", "98s", "99",
             "A2s", "A3s", "A4s", "A5s", "A6s", "A7s", "A8s", "A9s",
             "AA",
             "AJo", "AJs", "AKo", "AKs", "AQo", "AQs", "ATo", "ATs",
             "J8s", "J9s",
             "JJ", "JTs",
             "K8s", "K9s", "KJo", "KJs", "KK", "KQo", "KQs", "KTs",
             "Q8s", "Q9s", "QJs", "QQ", "QTs",
             "T8s", "T9s", "TT"},
     MP |-> {"65s", "86s", "97s",
             "A6s", "A7s", "A9o",
             "J7s", "JTo",
             "K6s", "K7s", "KTo",
             "Q7s", "QJo", "QQ", "QTo",
             "T7s"},
     HJ |-> {"54s", "96s",
             "A2s", "A3s", "A4s", "A5s", "A8o",
             "J6s", "J9o",
             "K2s", "K3s", "K4s", "K5s", "K6s", "K9o",
             "Q5s", "Q6s", "Q9o",
             "T6s", "T9o"},
     CO |-> {"32s", "43s", "64s", "74s", "75s", "84s", "85s", "94s", "95s",
             "98o",
             "A2o", "A3o", "A4o", "A5o", "A6o", "A7o",
             "J2s", "J3s", "J4s", "J5s", "J8o",
             "K2s", "K3s", "K4s", "K8o",
             "Q2s", "Q3s", "Q4s", "Q5s", "Q8o",
             "T4s", "T5s", "T8o"}]

\* the first position of RFI_MOS_ORDER whose range holds the key
get_mos_min_position(hand_key) ==
    LET hit == {i \in 1..4 : hand_key \in RFI_MOS_RANGES[RFI_MOS_ORDER[i]]}
    IN  IF hit = {} THEN None ELSE Some(RFI_MOS_ORDER[SetMin(hit)])

\* _classify_hand_category_from_mos: category and strength_score (thousandths)
HandCategory(mos_pos) ==
    IF IsNone(mos_pos) THEN [category |-> "trash", strength_score |-> 450]
    ELSE IF Val(mos_pos) = "EP" THEN [category |-> "premium", strength_score |-> 950]
    ELSE IF Val(mos_pos) = "MP" THEN [category |-> "strong", strength_score |-> 850]
    ELSE IF Val(mos_pos) = "HJ" THEN [category |-> "medium", strength_score |-> 750]
    ELSE [category |-> "speculative", strength_score |-> 650]

\* base_equity_by_category, in thousandths
BaseEquity(category) ==
    IF category = "premium" THEN 680
    ELSE IF category = "strong" THEN 600
    ELSE IF category = "medium" THEN 560
    ELSE IF category = "speculative" THEN 520
    ELSE IF category = "trash" THEN 470
    ELSE 500

\* estimate_preflop_equity_as_dict: base + (strength - 0.7) * 0.08, clamped
\* to [0.35, 0.80]; (strength - 700) * 8 is a multiple of 100 for every
\* strength the classification yields, so the thousandths are exact
estimate_preflop_equity(cards) ==
    LET hand_key == normalize_hand_key(cards)
        mos_pos  == get_mos_min_position(hand_key)
        cat      == HandCategory(mos_pos)
        raw      == BaseEquity(cat.category) + ((cat.strength_score - 700) * 8) \div 100
    IN  [hand_key |-> hand_key,
         category |-> cat.category,
         strength_score |-> cat.strength_score,
         estimated_equity_vs_unknown |-> Max(350, Min(800, raw)),
         mos_min_position |-> mos_pos]

-----------------------------------------------------------------------------
(* ev_tools.py: the shared EV model.  EV values are integers scaled by     *)
(* EqScale * FeScale.                                                      *)

EqScale == 1000
FeScale == 100
\* _clamp01 on an equity in thousandths / a fold equity in hundredths
Clamp01(x, scale) == IF x < 0 THEN 0 ELSE IF x > scale THEN scale ELSE x

\* ev_call_check with the equity applied to the pot alone
ev_call_check_PotOnly(pb, inv, equity) ==
    FeScale * (Clamp01(equity, EqScale) * pb - EqScale * inv)

\* ev_call_check: e * (pb + inv) - inv
ev_call_check(pb, inv, equity) ==
    FeScale * (Clamp01(equity, EqScale) * (pb + inv) - EqScale * inv)

\* ev_bet_raise: fe * pb + (1 - fe) * (e * final_pot - inv)
ev_bet_raise(pb, inv, equity, fold_equity, final_pot_if_called) ==
    LET e  == Clamp01(equity, EqScale)
        fe == IF IsNone(fold_equity) THEN 0 ELSE Clamp01(Val(fold_equity), FeScale)
        final_pot == IF IsNone(final_pot_if_called) THEN pb + 2 * inv
                     ELSE Val(final_pot_if_called)
    IN  fe * pb * EqScale + (FeScale - fe) * (e * final_pot - EqScale * inv)

\* MakeEvEstimate with the legacy ev key left at zero
MakeEvEstimateLegacyZero(ak, ev_value, label, pb, inv, eq, fe, explanation) ==
    [action_kind |-> ak, ev_action |-> ev_value, ev |-> 0,
     ev_action_label |-> label, pot_before |-> pb, investment |-> inv,
     estimated_equity |-> eq, fold_equity |-> fe, model |-> "v1_baseline",
     explanation |-> explanation]

\* _make_ev_estimate: the numeric value goes to both ev_action and ev; the
\* explanation text is carried as a tag naming the sentence
MakeEvEstimate(ak, ev_value, label, pb, inv, eq, fe, explanation) ==
    [action_kind |-> ak, ev_action |-> ev_value, ev |-> ev_value,
     ev_action_label |-> label, pot_before |-> pb, investment |-> inv,
     estimated_equity |-> eq, fold_equity |-> fe, model |-> "v1_baseline",
     explanation |-> explanation]

\* compute_ev_estimate_v1 (no label passed by the callers: label is "unlabeled")
compute_ev_estimate_v1(ak, pot_before, investment, estimated_equity, fold_equity, final_pot_if_called) ==
    IF IsNone(pot_before) \/ IsNone(estimated_equity)
    THEN MakeEvEstimate(ak, 0, "missing_inputs", pot_before, investment,
                        estimated_equity, fold_equity, "insufficient_inputs")
    ELSE LET pb == Val(pot_before)
             eq == Clamp01(Val(estimated_equity), EqScale)
         IN  IF IsNone(investment) /\ ak \in {"check", "fold"}
             THEN MakeEvEstimate(ak, 0, ak, Some(pb), investment, Some(eq),
                                 fold_equity, "passive_without_investment")
             ELSE IF IsNone(investment)
             THEN MakeEvEstimate(ak, 0, "missing_investment", Some(pb), investment,
                                 Some(eq), fold_equity, "no_investment")
             ELSE LET inv == Val(investment)
                  IN  IF ak = "fold"
                      THEN MakeEvEstimate(ak, 0, "fold", Some(pb), Some(inv),
                                          Some(eq), fold_equity, "fold")
                      ELSE IF ak \in {"call", "check"}
                      THEN MakeEvEstimate(ak, ev_call_check(pb, inv, eq),
                                          IF inv = 0 THEN "check" ELSE "call",
                                          Some(pb), Some(inv), Some(eq), fold_equity,
                                          "call_check_formula")
                      ELSE IF ak \in {"bet", "raise", "3bet", "4bet", "allin", "all-in", "jam"}
                      THEN LET fe == IF IsNone(fold_equity) THEN 0
                                     ELSE Clamp01(Val(fold_equity), FeScale)
                           IN  MakeEvEstimate(ak,
                                   ev_bet_raise(pb, inv, eq, Some(fe), final_pot_if_called),
                                   ak \o "_default", Some(pb), Some(inv), Some(eq), Some(fe),
                                   "bet_raise_formula")
                      ELSE MakeEvEstimate(ak, 0, "unknown_action_kind", Some(pb),
                                          Some(inv), Some(eq), fold_equity,
                                          "unknown_action_kind")

-----------------------------------------------------------------------------
(* decision_engine.py *)

\* POSITION_ORDER.get(hero_position) if hero_position else None
PositionOrder(pos) ==
    IF IsNone(pos) THEN None
    ELSE IF Val(pos) = "UTG" THEN Some(0)
    ELSE IF Val(pos) = "MP" THEN Some(1)
    ELSE IF Val(pos) = "HJ" THEN Some(2)
    ELSE IF Val(pos) = "CO" THEN Some(3)
    ELSE IF Val(pos) = "BTN" THEN Some(4)
    ELSE IF Val(pos) = "SB" THEN Some(5)
    ELSE IF Val(pos) = "BB" THEN Some(6)
    ELSE None

\* MOS_POSITION_ORDER.get(mos_min_position)
MosPositionOrder(mos) ==
    IF IsNone(mos) THEN None
    ELSE IF Val(mos) = "EP" THEN Some(0)
    ELSE IF Val(mos) = "MP" THEN Some(1)
    ELSE IF Val(mos) = "HJ" THEN Some(2)
    ELSE IF Val(mos) = "CO" THEN Some(3)
    ELSE None

\* _safe_positive
SafePositive(v) == IF IsNone(v) THEN None ELSE IF Val(v) <= 0 THEN None ELSE v

\* fe_open_by_pos.get(pos, 0.40), in hundredths
FeOpenByPos(pos) ==
    IF pos = "UTG" THEN 35
    ELSE IF pos = "MP" THEN 38
    ELSE IF pos = "HJ" THEN 42
    ELSE IF pos = "CO" THEN 48
    ELSE IF pos = "BTN" THEN 52
    ELSE IF pos = "SB" THEN 30
    ELSE IF pos = "BB" THEN 10
    ELSE 40

\* _estimate_fold_equity, in hundredths
EstimateFoldEquity(action_type, hero_pos, facing_raises, eff_bb) ==
    LET pos  == IF IsNone(hero_pos) THEN "CO" ELSE Val(hero_pos)
        base == IF action_type = Some("open_raise") THEN FeOpenByPos(pos)
                ELSE IF action_type = Some("iso_raise") THEN FeOpenByPos(pos) - 5
                ELSE IF action_type = Some("3bet")
                     THEN (IF pos \in {"CO", "BTN"} THEN 50 ELSE 45)
                ELSE IF action_type = Some("4bet") THEN 55
                ELSE IF action_type = Some("5bet_plus") THEN 65
                ELSE 30
        fr   == IF facing_raises >= 2 THEN base - 5 ELSE base
        eff  == IF IsNone(eff_bb) THEN fr
                ELSE IF Val(eff_bb) < 40 THEN fr - 5
                ELSE IF Val(eff_bb) > 120 THEN fr + 5
                ELSE fr
    IN  Max(5, Min(75, eff))

\* compute_preflop_math; required_equity = investment / (pot_before + investment)
\* is kept as the fraction num/den; ev_simple is scaled by EqScale * FeScale
compute_preflop_math(pot_before, investment, estimated_equity, action_type, hero_pos, facing_raises, eff_bb) ==
    LET pot_b == SafePositive(pot_before)
        inv   == SafePositive(investment)
        req   == IF IsSome(pot_b) /\ IsSome(inv)
                 THEN Some([num |-> Val(inv), den |-> Val(pot_b) + Val(inv)])
                 ELSE None
    IN  IF IsNone(pot_b) \/ IsNone(inv) \/ IsNone(estimated_equity)
        THEN [pot_before |-> pot_b, investment |-> inv, required_equity |-> req,
              estimated_equity |-> estimated_equity, ev_simple |-> None,
              model |-> None, fold_equity |-> None, final_pot_if_called |-> None]
        ELSE LET p == Val(pot_b)
                 i == Val(inv)
                 e == Val(estimated_equity)
             IN  IF IsSome(action_type) /\ Val(action_type) \in {"open_raise", "iso_raise", "3bet", "4bet", "5bet_plus"}
                 THEN LET fe == EstimateFoldEquity(action_type, hero_pos,
                                                   facing_raises, eff_bb)
                          final == p + 2 * i
                      IN  [pot_before |-> pot_b, investment |-> inv,
                           required_equity |-> req,
                           estimated_equity |-> estimated_equity,
                           ev_simple |-> Some(fe * p * EqScale
                                              + (FeScale - fe) * (e * final - (EqScale - e) * i)),
                           model |-> Some("raise_fe_model"),
                           fold_equity |-> Some(fe),
                           final_pot_if_called |-> Some(final)]
                 ELSE [pot_before |-> pot_b, investment |-> inv,
                       required_equity |-> req,
                       estimated_equity |-> estimated_equity,
                       ev_simple |-> Some(FeScale * (e * (p + i) - (EqScale - e) * i)),
                       model |-> Some("call_model"),
                       fold_equity |-> None,
                       final_pot_if_called |-> None]

\* _classify_decision_quality_base: edge = estimated - required against
\* 0.06, 0 and -0.05, compared exactly after multiplying by 1000 * den
ClassifyDecisionQualityBase(math) ==
    IF IsNone(math.estimated_equity) \/ IsNone(math.required_equity) THEN "unknown"
    ELSE LET den  == Val(math.required_equity).den
             edge == Val(math.estimated_equity) * den
                     - EqScale * Val(math.required_equity).num
         IN  IF edge >= 60 * den THEN "good"
             ELSE IF 0 <= edge /\ edge < 60 * den THEN "marginal"
             ELSE IF (0 - 50) * den <= edge /\ edge < 0 THEN "mistake"
             ELSE "blunder"

\* AdjustQualityByRangeDiscipline with the open penalty stopping at mistake
AdjustQualityMistakeKept(base_quality, range_discipline) ==
    IF IsNone(range_discipline) THEN base_quality
    ELSE LET error_type == Val(range_discipline).error_type
         IN  IF error_type \in {Some("too_loose_open"), Some("too_early_position_open")}
             THEN (IF base_quality = "good" THEN "marginal"
                   ELSE IF base_quality = "marginal" THEN "mistake"
                   ELSE base_quality)
             ELSE IF error_type = Some("too_tight_fold")
             THEN (IF base_quality \in {"unknown", "marginal", "good"} THEN "mistake"
                   ELSE base_quality)
             ELSE base_quality

\* _adjust_quality_by_range_discipline
AdjustQualityByRangeDiscipline(base_quality, range_discipline) ==
    IF IsNone(range_discipline) THEN base_quality
    ELSE LET error_type == Val(range_discipline).error_type
         IN  IF error_type \in {Some("too_loose_open"), Some("too_early_position_open")}
             THEN (IF base_quality = "good" THEN "marginal"
                   ELSE IF base_quality = "marginal" THEN "mistake"
                   ELSE IF base_quality = "mistake" THEN "blunder"
                   ELSE base_quality)
             ELSE IF error_type = Some("too_tight_fold")
             THEN (IF base_quality \in {"unknown", "marginal", "good"} THEN "mistake"
                   ELSE base_quality)
             ELSE base_quality

Discipline(in_mos, position_ok, hero_pos, mos, error_type) ==
    Some([in_mos |-> in_mos, position_ok |-> position_ok, hero_position |-> hero_pos,
          mos_min_position |-> mos, error_type |-> error_type])

\* the first-in-fold branch when the hero's position has no order index
TightFoldUnknownPosition(hero_pos, mos) ==
    Discipline(TRUE, None, hero_pos, mos, Some("too_tight_fold"))

\* _compute_range_discipline
ComputeRangeDiscipline(hero_pos, mos, action_type, was_first_in) ==
    LET mos_idx  == MosPositionOrder(mos)
        hero_idx == PositionOrder(hero_pos)
    IN  IF action_type = Some("fold_preflop") /\ was_first_in = Some(TRUE)
        THEN IF IsNone(mos) THEN None
             ELSE IF IsNone(mos_idx) \/ IsNone(hero_idx)
                  THEN TightFoldUnknownPosition(hero_pos, mos)
             ELSE IF Val(hero_idx) >= Val(mos_idx)
                  THEN Discipline(TRUE, Some(TRUE), hero_pos, mos, Some("too_tight_fold"))
             ELSE Discipline(TRUE, Some(FALSE), hero_pos, mos, None)
        ELSE IF action_type \notin {Some("open_raise"), Some("open_limp"),
                                    Some("iso_raise"), Some("overlimp")}
        THEN None
        ELSE IF IsNone(mos)
             THEN Discipline(FALSE, Some(FALSE), hero_pos, None, Some("too_loose_open"))
        ELSE IF IsNone(mos_idx) \/ IsNone(hero_idx)
             THEN Discipline(TRUE, None, hero_pos, mos, None)
        ELSE IF Val(hero_idx) >= Val(mos_idx)
             THEN Discipline(TRUE, Some(TRUE), hero_pos, mos, None)
        ELSE Discipline(TRUE, Some(FALSE), hero_pos, mos, Some("too_early_position_open"))

\* evaluate_preflop_decision over its keyword arguments a
evaluate_preflop_decision(a) ==
    LET math == compute_preflop_math(a.pot_before, a.investment, a.estimated_equity,
                                     a.action_type, a.hero_position, a.facing_raises,
                                     a.effective_stack_bb)
        base_quality == ClassifyDecisionQualityBase(math)
        range_discipline == ComputeRangeDiscipline(a.hero_position, a.mos_min_position,
                                                   a.action_type, a.was_first_in)
        final_quality == AdjustQualityByRangeDiscipline(base_quality, range_discipline)
    IN  [action_type |-> a.action_type,
         action_kind |-> a.action_kind,
         decision_quality |-> final_quality,
         math |-> math,
         range_discipline |-> range_discipline,
         ev_estimate |-> compute_ev_estimate_v1(a.action_kind, a.pot_before, a.investment,
                                                a.estimated_equity, None, None)]

\* compute_hero_preflop_decision: the arguments it passes for the hero's first
\* voluntary preflop action hero_first, the analysis an and the equity dict eq
PreflopDecisionArgs(hero_first, an, eq) ==
    [action_type |-> an.action_type,
     action_kind |-> IF hero_first.action \in {"call", "raise", "fold", "check", "bet"}
                     THEN hero_first.action ELSE "other",
     pot_before |-> hero_first.pot_before,
     investment |-> hero_first.amount,
     estimated_equity |-> Some(eq.estimated_equity_vs_unknown),
     hero_position |-> an.hero_position,
     mos_min_position |-> eq.mos_min_position,
     hand_key |-> eq.hand_key,
     was_first_in |-> an.was_first_in,
     facing_raises |-> an.facing_raises,
     effective_stack_bb |-> an.effective_stack_bb]

\* compute_hero_preflop_decision (the followup_vs_aggression key it may add
\* to the record describes later actions and is not carried here)
HeroPreflopDecision(acts, hero, an, eq) ==
    IF IsNone(hero) \/ IsNone(an) \/ IsNone(eq) THEN None
    ELSE IF OnStreet(acts, "preflop") = <<>> THEN None
    ELSE IF HeroPreflopActions(acts, Val(hero)) = <<>> THEN None
    ELSE Some(evaluate_preflop_decision(
                  PreflopDecisionArgs(HeroPreflopActions(acts, Val(hero))[1],
                                      Val(an), Val(eq))))

\* parse_file_to_hands: hero_preflop_equity exists when hole cards were parsed
HeroPreflopEquity(cards) ==
    IF cards = <<>> THEN None ELSE Some(estimate_preflop_equity(cards))

\* parse_file_to_hands: the equity estimate and the preflop decision
ComputeHeroPreflopDecision ==
    /\ pc = "analysed"
    /\ preflop_decision' = HeroPreflopDecision(actions, hero_name, analysis,
                                               HeroPreflopEquity(hero_cards))
    /\ pc' = "decided"
    /\ UNCHANGED <<street, actions, pots, handVars, analysis, flop_decision,
                   turn_decision, fileVars, posVars, callVars, storeVars>>

-----------------------------------------------------------------------------
(* SpecDec: the preflop decision of the hero over short preflop action     *)
(* lists, hole cards of every range class, known and unknown positions     *)

MaxDecActions == 2      \* longest preflop action list fed to the decision engine

\* positions assign_positions hands out, and none when it hands out nothing
DecPositions == <<Some("CO"), Some("UTG"), Some("MP"), Some("BTN"), Some("BB"), None>>

InitDec ==
    /\ pc = "parse"
    /\ street = "preflop"
    /\ actions = <<>>
    /\ pots = NoPots
    /\ hero_name = Some(Hero)
    /\ hero_cards \in { <<<<"T", "d">>, <<"T", "h">>>>,      \* TT
                       <<<<"J", "c">>, <<"Q", "d">>>>,      \* QJo, low card first
                       <<<<"A", "s">>, <<"8", "d">>>>,      \* A8o
                       <<<<"9", "h">>, <<"8", "c">>>>,      \* 98o
                       <<<<"7", "d">>, <<"2", "c">>>> }     \* 72o
    /\ \E i \in 1..Len(DecPositions) : hero_position = DecPositions[i]
    /\ effective_stack_bb \in {None, Some(130)}
    /\ analysis = None
    /\ preflop_decision = None
    /\ flop_decision = None
    /\ turn_decision = None
    /\ InitFile /\ InitSeats /\ InitCall /\ InitStore

DecParseLine ==
    /\ Len(actions) < MaxDecActions
    /\ \E l \in ({Hero} \X {"fold", "call", "raise", "check", "bet"})
                  \union ({"V1"} \X {"post_bb", "fold", "call", "raise"}),
          a \in 1..MaxAmount :
          ParseActionLine(l[1], l[2], a)

NextDec == DecParseLine \/ Annotate \/ ComputeHeroPreflopAnalysis
           \/ ComputeHeroPreflopDecision

SpecDec == InitDec /\ [][NextDec]_vars

\* the hero's first voluntary preflop action and the decision made of it
C_HeroFirst == actions[C_HeroFirstIdx]
C_Decision  == Val(preflop_decision)
C_Equity    == estimate_preflop_equity(hero_cards)

\* the error_type of the decision's range-discipline record, None without one
C_ErrorType ==
    IF IsNone(C_Decision.range_discipline) THEN None
    ELSE Val(C_Decision.range_discipline).error_type

\* the hero's position is known and not earlier than the hand's minimum position
C8_AtOrAfterMinimum ==
    /\ IsSome(PositionOrder(hero_position))
    /\ IsSome(MosPositionOrder(C_Equity.mos_min_position))
    /\ Val(PositionOrder(hero_position)) >= Val(MosPositionOrder(C_Equity.mos_min_position))

\* the hero's position is known and earlier than the hand's minimum position
C8_BeforeMinimum ==
    /\ IsSome(PositionOrder(hero_position))
    /\ IsSome(MosPositionOrder(C_Equity.mos_min_position))
    /\ Val(PositionOrder(hero_position)) < Val(MosPositionOrder(C_Equity.mos_min_position))

C8_Expected ==
    LET at == Val(analysis).action_type
    IN  IF at \in {Some("open_raise"), Some("open_limp"), Some("iso_raise"), Some("overlimp")}
        THEN (IF IsNone(C_Equity.mos_min_position) THEN Some("too_loose_open")
              ELSE IF C8_BeforeMinimum THEN Some("too_early_position_open")
              ELSE None)
        ELSE IF at = Some("fold_preflop") /\ Val(analysis).was_first_in = Some(TRUE)
        THEN (IF IsSome(C_Equity.mos_min_position) /\ C8_AtOrAfterMinimum
              THEN Some("too_tight_fold") ELSE None)
        ELSE None

\* C8: range discipline reports too_loose_open / too_early_position_open for
\* an open or limp, too_tight_fold for a first-in fold of a hand in range from
\* a position at or after its minimum position, and no error in any other
\* case, in particular none when the hero's position is unknown.
C8_RangeDiscipline ==
    (pc = "decided" /\ IsSome(preflop_decision)) => C_ErrorType = C8_Expected

\* the grade of the edge estimated_equity - required_equity, with equity E in
\* thousandths and required_equity = inv / (pb + inv)
C9_EdgeGrade(E, pb, inv) ==
    LET lhs == E * (pb + inv) - 1000 * inv
    IN  IF lhs >= 60 * (pb + inv) THEN "good"
        ELSE IF lhs >= 0 THEN "marginal"
        ELSE IF lhs >= (0 - 50) * (pb + inv) THEN "mistake"
        ELSE "blunder"

\* the grade before range discipline: unknown when the pot or the investment
\* of the action is missing or not positive
C9_BaseGrade ==
    IF \/ IsNone(C_HeroFirst.amount) \/ IsNone(C_HeroFirst.pot_before)
       \/ Val(C_HeroFirst.amount) <= 0 \/ Val(C_HeroFirst.pot_before) <= 0
    THEN "unknown"
    ELSE C9_EdgeGrade(C_Equity.estimated_equity_vs_unknown,
                      Val(C_HeroFirst.pot_before), Val(C_HeroFirst.amount))

C9_OneNotchDown(g) ==
    IF g = "good" THEN "marginal"
    ELSE IF g = "marginal" THEN "mistake"
    ELSE IF g = "mistake" THEN "blunder"
    ELSE g

\* C9 as claimed: the grade of the edge, lowered by exactly one notch whenever
\* the range-discipline record carries an error_type.
C9_OneNotchWhenError ==
    (pc = "decided" /\ IsSome(preflop_decision))
    => C_Decision.decision_quality =
          IF IsSome(C_ErrorType) THEN C9_OneNotchDown(C9_BaseGrade) ELSE C9_BaseGrade

\* C9 (amended): the grade of the edge (unknown without a positive pot and
\* investment); an open error (too_loose_open, too_early_position_open) lowers
\* it by one notch, blunder and unknown staying as they are; too_tight_fold
\* makes it mistake unless it already is mistake or blunder; without an
\* error_type it is unchanged.
C9_GradeAndDiscipline ==
    (pc = "decided" /\ IsSome(preflop_decision))
    => C_Decision.decision_quality =
          IF C_ErrorType \in {Some("too_loose_open"), Some("too_early_position_open")}
          THEN C9_OneNotchDown(C9_BaseGrade)
          ELSE IF C_ErrorType = Some("too_tight_fold")
          THEN (IF C9_BaseGrade \in {"mistake", "blunder"} THEN C9_BaseGrade ELSE "mistake")
          ELSE C9_BaseGrade

\* an open from too early a position whose edge grades good is reported marginal
C9_Witness ==
    /\ pc = "decided"
    /\ IsSome(preflop_decision)
    /\ C_ErrorType = Some("too_early_position_open")
    /\ C9_BaseGrade = "good"
    /\ C_Decision.decision_quality = "marginal"

\* the fold-equity heuristic value for the hero's action
C10_FoldEquity ==
    EstimateFoldEquity(Val(analysis).action_type, hero_position,
                       Val(analysis).facing_raises, effective_stack_bb)

\* the EV of the shared model, scaled by EqScale * FeScale
C10_Expected ==
    LET kind == C_HeroFirst.action
        E    == C_Equity.estimated_equity_vs_unknown
        pb   == Val(C_HeroFirst.pot_before)
        inv  == IF IsNone(C_HeroFirst.amount) THEN 0 ELSE Val(C_HeroFirst.amount)
    IN  IF kind = "fold" THEN 0
        ELSE IF kind = "check" THEN FeScale * E * pb
        ELSE IF kind = "call" THEN FeScale * (E * (pb + inv) - EqScale * inv)
        ELSE C10_FoldEquity * pb * EqScale
             + (FeScale - C10_FoldEquity) * (E * (pb + 2 * inv) - EqScale * inv)

\* C10: the EV in the decision's ev_estimate is 0 for a fold, equity*pot_before
\* for a check, equity*(pot_before+investment) - investment for a call and
\* FE*pot_before + (1-FE)*(equity*final_pot - investment) for a bet or raise,
\* FE being the fold-equity heuristic value of the action.
C10_EvModel ==
    (pc = "decided" /\ IsSome(preflop_decision))
    => C_Decision.ev_estimate.ev = C10_Expected

-----------------------------------------------------------------------------
(* compute_hero_flop_decision *)

HeroStreetActions(acts, hero, st) ==
    SelectSeq(OnStreet(acts, st),
              LAMBDA a : a.player = hero /\ a.action /= "uncalled")

\* the role the hero took before the flop
PreflopRole(an, pos) ==
    IF IsNone(an) THEN "unknown"
    ELSE LET atype == Val(an).action_type
         IN  IF atype \in {Some("open_raise"), Some("iso_raise"), Some("3bet"),
                           Some("4bet"), Some("5bet_plus")} THEN "aggressor"
             ELSE IF atype \in {Some("call_vs_raise"), Some("call_vs_3bet_plus"),
                                Some("open_limp"), Some("overlimp")} THEN "caller"
             ELSE IF atype = Some("fold_preflop") THEN "folder"
             ELSE IF IsNone(atype) /\ pos = Some("BB") THEN "checked_bb"
             ELSE "unknown"

FlopActionType(kind, preflop_role, facing_bet) ==
    IF kind = "bet"
    THEN (IF preflop_role = "aggressor" /\ ~facing_bet THEN "cbet" ELSE "bet_vs_check")
    ELSE IF kind = "check" THEN "check"
    ELSE IF kind = "call" THEN (IF facing_bet THEN "call_vs_bet" ELSE "call")
    ELSE IF kind = "raise" THEN (IF facing_bet THEN "raise_vs_bet" ELSE "raise")
    ELSE IF kind = "fold" THEN (IF facing_bet THEN "fold_vs_bet" ELSE "fold")
    ELSE kind

\* _estimate_flop_strength_score, in hundredths
FlopStrengthScore(category, pair_kind) ==
    IF IsNone(category) THEN None
    ELSE LET c == Val(category)
         IN  Some(CASE c = "straight_flush" -> 98
                    [] c = "quads"          -> 95
                    [] c = "full_house"     -> 92
                    [] c = "flush"          -> 86
                    [] c = "straight"       -> 82
                    [] c = "set"            -> 78
                    [] c = "two_pair"       -> 72
                    [] c = "pair" ->
                          (CASE pair_kind = Some("overpair")    -> 75
                             [] pair_kind = Some("top_pair")    -> 70
                             [] pair_kind = Some("middle_pair") -> 55
                             [] pair_kind = Some("bottom_pair") -> 50
                             [] pair_kind = Some("board_pair")  -> 35
                             [] OTHER -> 50)
                    [] c = "high_card"      -> 20
                    [] OTHER -> 50)

\* estimate_flop_equity_simple, equity in thousandths, without the
\* explanation text
estimate_flop_equity_simple(category, pair_kind, strength_score, multiway, hero_ip, preflop_role) ==
    IF IsNone(category) \/ IsNone(strength_score) THEN None
    ELSE LET base == Max(80, Min(920, 500 + (13 * Val(strength_score) - 650)))
             raw  == base
                     - (IF multiway THEN 70 ELSE 0)
                     + (IF hero_ip THEN 20 ELSE 0 - 30)
                     + (IF preflop_role = "aggressor" THEN 20
                        ELSE IF preflop_role = "caller" THEN 0 - 10 ELSE 0)
                     - (IF category = Some("high_card") THEN 50 ELSE 0)
                     - (IF pair_kind = Some("board_pair") THEN 30 ELSE 0)
                     + (IF Val(category) \in {"set", "full_house", "quads", "straight_flush"}
                        THEN 30 ELSE 0)
         IN  Some([estimated_equity |-> Max(50, Min(950, raw)),
                   model            |-> "simple_flop_category_model"])

\* the decision_quality of compute_hero_flop_decision
FlopDecisionQuality(action_type, category, strength_score, multiway, ip) ==
    IF IsNone(strength_score) \/ IsNone(category) THEN "unknown"
    ELSE LET sc          == Val(strength_score)
             very_strong == sc >= 75
             strong      == sc >= 65
             medium      == 45 <= sc /\ sc < 65
             weak        == sc <= 35
         IN  IF action_type \in {"cbet", "bet_vs_check"}
             THEN (IF very_strong \/ strong THEN "good"
                   ELSE IF medium THEN "ok"
                   ELSE IF ~multiway /\ ip THEN "ok" ELSE "risky")
             ELSE IF action_type = "check"
             THEN (IF very_strong /\ ~multiway /\ ip THEN "risky"
                   ELSE IF weak THEN "good" ELSE "ok")
             ELSE IF action_type \in {"call_vs_bet", "call"}
             THEN (IF strong \/ very_strong THEN "good"
                   ELSE IF weak THEN "risky" ELSE "ok")
             ELSE IF action_type \in {"raise_vs_bet", "raise"}
             THEN (IF very_strong THEN "good"
                   ELSE IF strong \/ medium THEN "ok"
                   ELSE IF ~multiway /\ ip THEN "ok" ELSE "risky")
             ELSE IF action_type \in {"fold_vs_bet", "fold"}
             THEN (IF strong \/ very_strong THEN "bad"
                   ELSE IF weak THEN "good" ELSE "ok")
             ELSE "unknown"

\* compute_hero_flop_decision; hand is the flop category and pair kind of the
\* hero's cards. The record has the keys of the returned dict except the
\* comment texts and sizing.pct_pot.
HeroFlopDecision(acts, hero, pos, an, hand) ==
    IF IsNone(hero) THEN None
    ELSE IF OnStreet(acts, "flop") = <<>> THEN None
    ELSE IF HeroStreetActions(acts, Val(hero), "flop") = <<>> THEN None
    ELSE LET flop_actions == OnStreet(acts, "flop")
             first        == HeroStreetActions(acts, Val(hero), "flop")[1]
             idx_first    == IndexOf(flop_actions, first)
             facing_bet   == \E i \in 1..(idx_first - 1) :
                                 flop_actions[i].action \in {"bet", "raise"}
             role         == PreflopRole(an, pos)
             action_type  == FlopActionType(first.action, role, facing_bet)
             players_to_flop == Cardinality({flop_actions[i].player :
                                                i \in 1..Len(flop_actions)})
             others       == {i \in 1..Len(flop_actions) :
                                 flop_actions[i].player /= Val(hero)}
             hero_ip      == IF others /= {} THEN idx_first > SetMax(others) ELSE TRUE
             strength_score == FlopStrengthScore(hand.category, hand.pair_kind)
         IN  Some([action_type      |-> action_type,
                   action_kind      |-> first.action,
                   sizing           |-> [amount     |-> first.amount,
                                         pot_before |-> first.pot_before],
                   context          |-> [players_to_flop |-> players_to_flop,
                                         multiway        |-> players_to_flop > 2,
                                         hero_ip         |-> hero_ip,
                                         hero_position   |-> pos,
                                         preflop_role    |-> role],
                   hand             |-> [category       |-> hand.category,
                                         pair_kind      |-> hand.pair_kind,
                                         strength_score |-> strength_score],
                   equity_estimate  |-> estimate_flop_equity_simple(hand.category,
                                            hand.pair_kind, strength_score,
                                            players_to_flop > 2, hero_ip, role),
                   decision_quality |-> FlopDecisionQuality(action_type, hand.category,
                                            strength_score, players_to_flop > 2, hero_ip)])

\* what evaluate_flop_hand_category and compute_hero_flop_detail give for the
\* hero's cards on a flop: no category, no hit, top pair, a set
FlopHands ==
    { [category |-> None, pair_kind |-> None],
      [category |-> Some("high_card"), pair_kind |-> None],
      [category |-> Some("pair"), pair_kind |-> Some("top_pair")],
      [category |-> Some("set"), pair_kind |-> None] }

-----------------------------------------------------------------------------
(* turn_engine.py: evaluate_hero_turn_decision *)

\* the call reaches the EV estimate: a hero, and a hero action on the turn
\* that is not an uncalled return.  There it calls compute_ev_estimate_v1
\* with keywords the function does not have (sizing, equity_estimate,
\* facing_bet), which raises TypeError; before that point it returns None.
TurnDecisionRaises(acts, hero) ==
    /\ IsSome(hero)
    /\ HeroStreetActions(acts, Val(hero), "turn") /= <<>>

-----------------------------------------------------------------------------
(* parse_file_to_hands: the loop over the hand blocks *)

\* any flop action of the hero, uncalled returns included
HeroHasFlopAction(acts, hero) ==
    /\ IsSome(hero)
    /\ \E i \in 1..Len(acts) : acts[i].street = "flop" /\ acts[i].player = Val(hero)

\* the head of one loop iteration: the header, the players and the hero
\* The hero of a block is what parse_hero and the position lookup
\* give: no "Dealt to" line, a hero without a position, a hero in the big blind.
StartHand ==
    /\ pc = "file"
    /\ Len(hands_objects) < hand_texts
    /\ \E h \in { [name |-> None, cards |-> <<>>, pos |-> None],
                   [name |-> Some(Hero), cards |-> <<<<"T", "d">>, <<"T", "h">>>>,
                    pos |-> None],
                   [name |-> Some(Hero), cards |-> <<<<"T", "d">>, <<"T", "h">>>>,
                    pos |-> Some("BB")] } :
          /\ hero_name' = h.name
          /\ hero_cards' = h.cards
          /\ hero_position' = h.pos
    /\ pc' = "parse"
    /\ UNCHANGED <<street, actions, pots, effective_stack_bb, outVars, fileVars, posVars, callVars, storeVars>>

\* the flop and turn engines when the turn engine returns
ComputePostflopDecisions ==
    /\ pc = "decided"
    /\ IF ~HeroHasFlopAction(actions, hero_name)
       THEN flop_decision' = None
       ELSE /\ ~TurnDecisionRaises(actions, hero_name)
            /\ \E hand \in FlopHands :
                  flop_decision' = HeroFlopDecision(actions, hero_name, hero_position,
                                                    analysis, hand)
    /\ turn_decision' = None
    /\ pc' = "built"
    /\ UNCHANGED <<street, actions, pots, handVars, analysis, preflop_decision,
                   fileVars, posVars, callVars, storeVars>>

\* the turn engine raises: the exception leaves parse_file_to_hands
TurnEngineRaises ==
    /\ pc = "decided"
    /\ HeroHasFlopAction(actions, hero_name)
    /\ TurnDecisionRaises(actions, hero_name)
    /\ \E hand \in FlopHands :
          flop_decision' = HeroFlopDecision(actions, hero_name, hero_position,
                                            analysis, hand)
    /\ result' = "raised"
    /\ pc' = "done"
    /\ UNCHANGED <<street, actions, pots, handVars, analysis, preflop_decision,
                   turn_decision, hand_texts, hands_objects, posVars, callVars, storeVars>>

\* Hand(id = idx, ...) is appended; the next iteration starts from fresh locals
AppendHand ==
    /\ pc = "built"
    /\ hands_objects' = Append(hands_objects, [id |-> Len(hands_objects) + 1])
    /\ street' = "preflop"
    /\ actions' = <<>>
    /\ pots' = NoPots
    /\ hero_name' = None
    /\ hero_cards' = <<>>
    /\ hero_position' = None
    /\ analysis' = None
    /\ preflop_decision' = None
    /\ flop_decision' = None
    /\ turn_decision' = None
    /\ pc' = "file"
    /\ UNCHANGED <<effective_stack_bb, hand_texts, result, posVars, callVars, storeVars>>

\* return [asdict(hand) for hand in hands_objects]
ReturnHands ==
    /\ pc = "file"
    /\ Len(hands_objects) >= hand_texts
    /\ result' = "returned"
    /\ pc' = "done"
    /\ UNCHANGED <<street, actions, pots, handVars, outVars, hand_texts,
                   hands_objects, posVars, callVars, storeVars>>

-----------------------------------------------------------------------------
(* Spec: parse_file_to_hands over files of up to MaxHands hand blocks *)

MaxHands       == 2     \* most hand blocks in a file
MaxHandActions == 2     \* most action lines in a hand block

\* the loop of split_into_hands from line i on
RECURSIVE SplitLoop(_, _, _, _)
SplitLoop(lines, i, hands, cur) ==
    IF i > Len(lines)
    THEN (IF cur /= <<>> THEN Append(hands, cur) ELSE hands)
    ELSE IF lines[i] \in {"", "  "}    \* line.strip() == ""
         THEN (IF cur /= <<>>
               THEN SplitLoop(lines, i + 1, Append(hands, cur), <<>>)
               ELSE SplitLoop(lines, i + 1, hands, cur))
         ELSE SplitLoop(lines, i + 1, hands, Append(cur, lines[i]))

\* split_into_hands without the flush after the loop: a block still open at
\* the end of the text is dropped
split_into_hands_NoFinalFlush(text) ==
    LET hands == SplitLoop(text, 1, <<>>, <<>>)
    IN  IF text /= <<>> /\ text[Len(text)] \notin {"", "  "}
        THEN SubSeq(hands, 1, Len(hands) - 1)
        ELSE hands

\* split_into_hands: the blocks of non-blank lines, each a sequence of lines
split_into_hands(text) == SplitLoop(text, 1, <<>>, <<>>)

Init ==
    /\ pc = "file"
    /\ InitHand /\ InitSeats /\ InitCall /\ InitStore
    /\ \E n \in 0..(2 * MaxHands - 1) :
          \E text \in [1..n -> {"", "  ", "Seat 1: Hero"}] :
              hand_texts = Len(split_into_hands(text))
    /\ hands_objects = <<>>
    /\ result = "running"

HandParseMarker == \E m \in Markers : ForwardMarker(m) /\ ParseStreetMarker(m)

\* an action line; blinds are posted before the hole cards are dealt
HandParseLine ==
    /\ Len(actions) < MaxHandActions
    /\ \E l \in ({Hero} \X {"post_bb", "check", "bet", "uncalled"})
                  \union ({"V1"} \X {"check", "bet"}) :
          /\ l[2] = "post_bb" => street = "preflop"
          /\ ParseActionLine(l[1], l[2], 1)

Next ==
    \/ StartHand
    \/ HandParseMarker
    \/ HandParseLine
    \/ Annotate
    \/ ComputeHeroPreflopAnalysis
    \/ ComputeHeroPreflopDecision
    \/ ComputePostflopDecisions
    \/ TurnEngineRaises
    \/ AppendHand
    \/ ReturnHands

Spec == Init /\ [][Next]_vars

\* C3: the batch is never aborted by one hand: the call returns one record per
\* hand block, in input order, whatever the hero does.
C3_BatchNeverAborts ==
    /\ result /= "raised"
    /\ result = "returned" =>
          /\ Len(hands_objects) = hand_texts
          /\ \A i \in 1..Len(hands_objects) : hands_objects[i].id = i

\* the hero has an action on street st other than a blind post or an
\* uncalled return
C4_HeroActed(st) ==
    \E i \in 1..Len(actions) :
        /\ actions[i].street = st
        /\ hero_name = Some(actions[i].player)
        /\ actions[i].action \notin {"post_sb", "post_bb", "uncalled"}

\* the decision record of street st in the Hand being built; the Hand has no
\* field for a river decision
C4_Record(st) ==
    IF st = "preflop" THEN preflop_decision
    ELSE IF st = "flop" THEN flop_decision
    ELSE IF st = "turn" THEN turn_decision
    ELSE None

\* C4: in every output hand the decision record of a street is present
\* exactly when the hero has an action on that street other than a blind
\* post or an uncalled return.
C4_RecordIffHeroActed ==
    pc = "built" => \A st \in StreetSet : IsSome(C4_Record(st)) <=> C4_HeroActed(st)

\* the keys a graded record of a street carries: the classification, the
\* context (the math block before the flop), the equity estimate (inside the
\* math block before the flop), the EV estimate and the grade
C18_GradedKeys(st) ==
    IF st = "preflop"
    THEN {"action_type", "math", "ev_estimate", "decision_quality"}
    ELSE {"action_type", "context", "equity_estimate", "ev_estimate", "decision_quality"}

\* C18: every street decision record of an output hand has reached Graded:
\* it carries an action classification, a context, an equity estimate, an
\* EV estimate and a decision-quality label.
C18_ExposedRecordsGraded ==
    pc = "built" =>
        \A st \in StreetSet :
            IsSome(C4_Record(st)) => C18_GradedKeys(st) \subseteq DOMAIN Val(C4_Record(st))

\* C19: parsing ends in a hard failure exactly when no hand block was
\* detected in the input.
C19_NoHandsIsOnlyHardFailure ==
    pc = "done" => (result = "raised" <=> hand_texts = 0)

-----------------------------------------------------------------------------
(* range_store.py: the range pack read from the two range files.
   A file is a table position -> raw value: None when the file, its rfi
   table or the position is absent, Some(list) otherwise. A list entry is a
   record: str says whether the JSON value is a string, text is its text.
   The meta part of the pack plays no role in the lookups and is left out. *)

\* order of load_mos_rfi_pack
StoreOrder == <<"EP", "MP", "HJ", "CO">>
StorePositions == {StoreOrder[i] : i \in 1..Len(StoreOrder)}

\* str.strip() on the texts the range files carry
Strip(t) ==
    CASE t = " 72o " -> "72o"
      [] t = "  "    -> ""
      [] OTHER       -> t

\* _to_set_list: the stripped non-blank strings of a list; empty for a non-list
to_set_list(values) ==
    IF IsNone(values) THEN {}
    ELSE LET l == Val(values)
         IN  {Strip(l[i].text) : i \in {j \in 1..Len(l) : l[j].str /\ Strip(l[j].text) # ""}}

\* load_mos_rfi_pack with the user list added to the base list
load_mos_rfi_pack_Union(default_data, user_data) ==
    [rfi   |-> [pos \in StorePositions |->
                  to_set_list(default_data[pos]) \union to_set_list(user_data[pos])],
     order |-> StoreOrder]

\* load_mos_rfi_pack
load_mos_rfi_pack(default_data, user_data) ==
    [rfi   |-> [pos \in StorePositions |->
                  LET base          == to_set_list(default_data[pos])
                      override_list == user_data[pos]
                      override      == to_set_list(override_list)
                  IN  IF IsSome(override_list) /\ Len(Val(override_list)) > 0
                      THEN override
                      ELSE base],
     order |-> StoreOrder]

\* get_mos_rfi_pack reading the files on every call
get_mos_rfi_pack_Reload(cached, default_data, user_data) ==
    Some(load_mos_rfi_pack(default_data, user_data))

\* get_mos_rfi_pack: the value of _CACHED_PACK after the call, which is also
\* the pack returned
get_mos_rfi_pack(cached, default_data, user_data) ==
    IF IsNone(cached) THEN Some(load_mos_rfi_pack(default_data, user_data)) ELSE cached

\* the loop of mos_min_position over pack.order
StoreMinPosition(pack, hand_key) ==
    LET hk   == Strip(hand_key)
        hits == {i \in 1..Len(pack.order) : hk \in pack.rfi[pack.order[i]]}
    IN  IF hits = {} THEN None ELSE Some(pack.order[SetMin(hits)])

\* a default file that agrees with RFI_MOS_RANGES on TT, 65s and 72o
DefaultChart ==
    [pos \in StorePositions |->
        CASE pos = "EP" -> Some(<<[str |-> TRUE, text |-> "TT"]>>)
          [] pos = "MP" -> Some(<<[str |-> TRUE, text |-> "65s"]>>)
          [] OTHER      -> Some(<<>>)]

UserLists ==
    {None, Some(<<>>),
     Some(<<[str |-> TRUE, text |-> " 72o "], [str |-> FALSE, text |-> "7"],
            [str |-> TRUE, text |-> "TT"]>>),
     Some(<<[str |-> TRUE, text |-> "  "], [str |-> FALSE, text |-> "7"]>>)}

-----------------------------------------------------------------------------
(* parse_board on the board lines of a hand text.
   A marker line is the sequence of its bracket groups, a group the sequence
   of its card tokens; summary is the card list of the Board [...] line. *)

\* the board lines of a hand that saw n board cards. style says how the text
\* shows them: each marker line repeats the earlier board in a first group
\* (earlier_then_new), shows the whole board in one group (whole_board),
\* shows only the new card (new_only), or the text has the summary line alone
BoardText(deal, n, style) ==
    LET flop3 == SubSeq(deal, 1, 3)
        line(k) == IF style = "earlier_then_new" THEN <<SubSeq(deal, 1, k - 1), <<deal[k]>>>>
                   ELSE IF style = "whole_board" THEN <<SubSeq(deal, 1, k)>>
                   ELSE <<<<deal[k]>>>>
        shown == style /= "summary_only"
    IN  [flop    |-> IF shown /\ n >= 3 THEN Some(<<flop3>>) ELSE None,
         turn    |-> IF shown /\ n >= 4 THEN Some(line(4)) ELSE None,
         river   |-> IF shown /\ n >= 5 THEN Some(line(5)) ELSE None,
         summary |-> IF n >= 3 THEN Some(SubSeq(deal, 1, n)) ELSE None]

\* board.append(cards[-1]) for the first bracket group after a marker
AppendLastOfFirstGroup(board, line) ==
    IF IsNone(line) THEN board
    ELSE LET cards == Val(line)[1]
         IN  IF cards /= <<>> THEN Append(board, cards[Len(cards)]) ELSE board

\* parse_board
parse_board(text) ==
    LET flop_part == IF IsNone(text.flop) THEN <<>>
                     ELSE LET cards == Val(text.flop)[1]
                          IN  SubSeq(cards, 1, Min(3, Len(cards)))
        board     == AppendLastOfFirstGroup(AppendLastOfFirstGroup(flop_part, text.turn),
                                            text.river)
    IN  IF board = <<>> /\ IsSome(text.summary) THEN Val(text.summary) ELSE board

-----------------------------------------------------------------------------
(* turn_engine.py: what evaluate_hero_turn_decision has built when it reaches
   the EV estimate.  Equities and strength scores are in thousandths. *)

\* _get_preflop_role (river_engine.py has the same function)
get_preflop_role(an, pos) ==
    IF IsNone(an) THEN (IF pos = Some("BB") THEN "checked_bb" ELSE "unknown")
    ELSE LET atype == Val(an).action_type
         IN  IF atype \in {Some("open_raise"), Some("iso_raise"), Some("3bet"),
                           Some("4bet"), Some("5bet_plus")} THEN "aggressor"
             ELSE IF atype \in {Some("call_vs_raise"), Some("call_vs_3bet_plus"),
                                Some("open_limp"), Some("overlimp")} THEN "caller"
             ELSE IF atype = Some("fold_preflop") THEN "folder"
             ELSE IF IsNone(atype) /\ pos = Some("BB") THEN "checked_bb"
             ELSE "unknown"

TurnActionType(kind, facing_bet) ==
    IF kind = "bet" THEN (IF facing_bet THEN "bet" ELSE "bet_vs_check")
    ELSE IF kind = "check" THEN "check"
    ELSE IF kind = "call" THEN (IF facing_bet THEN "call_vs_bet" ELSE "call")
    ELSE IF kind = "raise" THEN (IF facing_bet THEN "raise_vs_bet" ELSE "raise")
    ELSE IF kind = "fold" THEN (IF facing_bet THEN "fold_vs_bet" ELSE "fold")
    ELSE kind

\* _estimate_turn_equity without the final clamp
estimate_turn_equity_NoClamp(approx_strength, flop_equity, multiway, hero_ip, preflop_role, action_type) ==
    IF IsNone(approx_strength) /\ IsNone(flop_equity) THEN None
    ELSE LET base_source == IF IsSome(approx_strength) THEN "strength_score"
                            ELSE "flop_equity"
             base_value  == IF IsSome(approx_strength) THEN Val(approx_strength)
                            ELSE Val(flop_equity)
             raw == base_value
                    - (IF multiway THEN 50 ELSE 0)
                    + (IF hero_ip THEN 20 ELSE 0 - 30)
                    + (IF preflop_role = "aggressor" THEN 20
                       ELSE IF preflop_role = "caller" THEN 0 - 10 ELSE 0)
                    + (IF action_type \in {"bet_vs_check", "raise_vs_bet"} THEN 20
                       ELSE IF action_type = "check" THEN 0 - 10 ELSE 0)
         IN  Some([estimated_equity |-> raw,
                   model            |-> "simple_turn_model",
                   explanation      |-> [base_source |-> base_source,
                                         base_value  |-> base_value]])

\* _estimate_turn_equity; of the explanation text the record keeps the base
\* it names ("... строится от {base_source}≈{base_value}")
estimate_turn_equity(approx_strength, flop_equity, multiway, hero_ip, preflop_role, action_type) ==
    IF IsNone(approx_strength) /\ IsNone(flop_equity) THEN None
    ELSE LET base_source == IF IsSome(approx_strength) THEN "strength_score"
                            ELSE "flop_equity"
             base_value  == IF IsSome(approx_strength) THEN Val(approx_strength)
                            ELSE Val(flop_equity)
             raw == base_value
                    - (IF multiway THEN 50 ELSE 0)
                    + (IF hero_ip THEN 20 ELSE 0 - 30)
                    + (IF preflop_role = "aggressor" THEN 20
                       ELSE IF preflop_role = "caller" THEN 0 - 10 ELSE 0)
                    + (IF action_type \in {"bet_vs_check", "raise_vs_bet"} THEN 20
                       ELSE IF action_type = "check" THEN 0 - 10 ELSE 0)
         IN  Some([estimated_equity |-> Max(50, Min(950, raw)),
                   model            |-> "simple_turn_model",
                   explanation      |-> [base_source |-> base_source,
                                         base_value  |-> base_value]])

\* the locals of evaluate_hero_turn_decision at its call of
\* compute_ev_estimate_v1, for a hero who acts on the turn: the keys of the
\* dict it goes on to build, except the board texture, the evolution, the
\* quality grade (graded from the texture) and the comment texts.  The flop
\* strength score, kept in hundredths by the flop decision, is read in
\* thousandths.
HeroTurnFrame(acts, hero, pos, an, flop_dec) ==
    LET turn_actions == OnStreet(acts, "turn")
        first        == HeroStreetActions(acts, Val(hero), "turn")[1]
        idx_first    == IndexOf(turn_actions, first)
        facing_bet   == \E i \in 1..(idx_first - 1) :
                            turn_actions[i].action \in {"bet", "raise"}
        action_type  == TurnActionType(first.action, facing_bet)
        players_to_turn == Cardinality({turn_actions[i].player :
                                           i \in 1..Len(turn_actions)})
        others       == {i \in 1..Len(turn_actions) :
                            turn_actions[i].player /= Val(hero)}
        hero_ip      == IF others /= {} THEN idx_first > SetMax(others) ELSE TRUE
        role         == get_preflop_role(an, pos)
        approx_category == IF IsSome(flop_dec) THEN Val(flop_dec).hand.category ELSE None
        flop_strength == IF IsSome(flop_dec) /\ IsSome(Val(flop_dec).hand.strength_score)
                         THEN Some(10 * Val(Val(flop_dec).hand.strength_score))
                         ELSE None
        flop_equity  == IF IsSome(flop_dec) /\ IsSome(Val(flop_dec).equity_estimate)
                        THEN Some(Val(Val(flop_dec).equity_estimate).estimated_equity)
                        ELSE None
        approx_strength == IF IsNone(flop_strength) /\ IsSome(flop_equity)
                           THEN flop_equity ELSE flop_strength
    IN  [action_type     |-> action_type,
         action_kind     |-> first.action,
         sizing          |-> [amount     |-> first.amount,
                              pot_before |-> first.pot_before],
         context         |-> [players_to_turn |-> players_to_turn,
                              multiway        |-> players_to_turn > 2,
                              hero_ip         |-> hero_ip,
                              hero_position   |-> pos,
                              preflop_role    |-> role],
         hand            |-> [approx_category_from_flop       |-> approx_category,
                              approx_strength_score_from_flop |-> approx_strength,
                              flop_equity_estimate            |-> flop_equity],
         equity_estimate |-> estimate_turn_equity(approx_strength, flop_equity,
                                 players_to_turn > 2, hero_ip, role, action_type)]

-----------------------------------------------------------------------------
(* river_engine.py: the river equity and missed-value heuristics.  Equities
   are in thousandths; a missed-value EV is an integer scaled by MissedScale. *)

RiverActionType(kind, facing_bet) ==
    IF kind = "bet" THEN (IF facing_bet THEN "bet" ELSE "bet_vs_check")
    ELSE IF kind = "check" THEN "check"
    ELSE IF kind = "call" THEN (IF facing_bet THEN "call_vs_bet" ELSE "call")
    ELSE IF kind = "raise" THEN (IF facing_bet THEN "raise_vs_bet" ELSE "raise")
    ELSE IF kind = "fold" THEN (IF facing_bet THEN "fold_vs_bet" ELSE "fold")
    ELSE kind

\* _estimate_river_equity, without the explanation text.  The adjustments
\* are summed in ten-thousandths (0.005 is 50) and the clamped sum is
\* rounded to three decimals by float(f"{x:.3f}"); a sum that ends in 5 lies
\* halfway between two thousandths, where the rounding follows the binary
\* value of the float sum: tie_up says which way it goes.
estimate_river_equity(base_from_turn, multiway, hero_ip, preflop_role, action_type, tie_up) ==
    IF IsNone(base_from_turn) THEN None
    ELSE LET raw == 10 * Val(base_from_turn)
                    - (IF multiway THEN 200 ELSE 0)
                    + (IF hero_ip THEN 100 ELSE 0 - 100)
                    + (IF preflop_role = "aggressor" THEN 100
                       ELSE IF preflop_role = "caller" THEN 0 - 50 ELSE 0)
                    + (IF action_type \in {"bet_vs_check", "bet", "raise_vs_bet", "raise"}
                       THEN 100
                       ELSE IF action_type = "check" THEN 0 - 50 ELSE 0)
             clamped == Max(200, Min(9800, raw))
         IN  Some([estimated_equity |-> IF clamped % 10 = 5 /\ tie_up
                                        THEN clamped \div 10 + 1
                                        ELSE clamped \div 10,
                   model            |-> "simple_river_model"])

\* the decision_quality of evaluate_hero_river_decision
RiverDecisionQuality(action_type, strength_for_logic, multiway, ip) ==
    IF IsNone(strength_for_logic) THEN "unknown"
    ELSE LET s           == Val(strength_for_logic)
             very_strong == s >= 750
             strong      == s >= 650
             medium      == 450 <= s /\ s < 650
             weak        == s <= 350
         IN  IF action_type \in {"bet_vs_check", "bet"}
             THEN (IF very_strong \/ strong THEN "good"
                   ELSE IF medium THEN "ok" ELSE "risky")
             ELSE IF action_type = "check"
             THEN (IF very_strong /\ ip /\ ~multiway THEN "risky"
                   ELSE IF weak THEN "good" ELSE "ok")
             ELSE IF action_type \in {"call_vs_bet", "call"}
             THEN (IF very_strong \/ strong THEN "good"
                   ELSE IF weak THEN "risky" ELSE "ok")
             ELSE IF action_type \in {"raise_vs_bet", "raise"}
             THEN (IF very_strong THEN "good"
                   ELSE IF strong \/ medium THEN (IF multiway THEN "risky" ELSE "ok")
                   ELSE "risky")
             ELSE IF action_type \in {"fold_vs_bet", "fold"}
             THEN (IF very_strong \/ strong THEN "bad"
                   ELSE IF weak THEN "good" ELSE "ok")
             ELSE "unknown"

MissedScale == 10000

\* _estimate_missed_value_ev_on_river with one threshold (0.65) for heads-up
\* and multiway pots alike
estimate_missed_value_OneThreshold(action_type, river_equity, pot_before, hero_ip, multiway) ==
    IF action_type /= "check" \/ ~hero_ip \/ IsNone(river_equity) \/ IsNone(pot_before)
    THEN None
    ELSE IF Val(pot_before) <= 0 THEN None
    ELSE IF Val(river_equity) < 650 THEN None
    ELSE LET max_fraction_of_pot == IF ~multiway THEN 25 ELSE 15
             strength == Min(Max(Val(river_equity) - 650, 0), 250)
         IN  Some([ev_action |-> 0 - ((Val(pot_before) * max_fraction_of_pot * strength
                                       * MissedScale) \div (100 * 250)),
                   model     |-> "river_missed_value_v1"])

\* _estimate_missed_value_ev_on_river, without the explanation text;
\* strength is (e - threshold) capped at 0.25, in thousandths, and the division
\* by 0.25 is made in the product
estimate_missed_value_ev_on_river(action_type, river_equity, pot_before, hero_ip, multiway) ==
    IF action_type /= "check" \/ ~hero_ip \/ IsNone(river_equity) \/ IsNone(pot_before)
    THEN None
    ELSE IF Val(pot_before) <= 0 THEN None
    ELSE LET threshold == IF ~multiway THEN 650 ELSE 700
         IN  IF Val(river_equity) < threshold THEN None
             ELSE LET max_fraction_of_pot == IF ~multiway THEN 25 ELSE 15
                      strength == Min(Max(Val(river_equity) - threshold, 0), 250)
                  IN  Some([ev_action |-> 0 - ((Val(pot_before) * max_fraction_of_pot
                                                * strength * MissedScale)
                                               \div (100 * 250)),
                            model     |-> "river_missed_value_v1"])

\* the equity estimate of an earlier street decision, if it has one
DecisionEquity(dec) ==
    IF IsSome(dec) /\ IsSome(Val(dec).equity_estimate)
    THEN Some(Val(Val(dec).equity_estimate).estimated_equity)
    ELSE None

\* evaluate_hero_river_decision; the record has the keys of the returned
\* dict except the comment texts, hand.note and sizing.pct_pot
HeroRiverDecision(acts, hero, pos, an, flop_dec, turn_dec, tie_up) ==
    IF IsNone(hero) THEN None
    ELSE IF OnStreet(acts, "river") = <<>> THEN None
    ELSE IF HeroStreetActions(acts, Val(hero), "river") = <<>> THEN None
    ELSE LET river_actions == OnStreet(acts, "river")
             first        == HeroStreetActions(acts, Val(hero), "river")[1]
             idx_first    == IndexOf(river_actions, first)
             facing_bet   == \E i \in 1..(idx_first - 1) :
                                 river_actions[i].action \in {"bet", "raise"}
             action_type  == RiverActionType(first.action, facing_bet)
             players_to_river == Cardinality({river_actions[i].player :
                                                 i \in 1..Len(river_actions)})
             others       == {i \in 1..Len(river_actions) :
                                 river_actions[i].player /= Val(hero)}
             hero_ip      == IF others /= {} THEN idx_first > SetMax(others) ELSE TRUE
             role         == get_preflop_role(an, pos)
             base_from_turn_equity == IF IsSome(DecisionEquity(turn_dec))
                                      THEN DecisionEquity(turn_dec)
                                      ELSE DecisionEquity(flop_dec)
             equity_estimate == estimate_river_equity(base_from_turn_equity,
                                    players_to_river > 2, hero_ip, role, action_type,
                                    tie_up)
             river_eq_value == IF IsSome(equity_estimate)
                               THEN Some(Val(equity_estimate).estimated_equity)
                               ELSE None
         IN  Some([action_type      |-> action_type,
                   action_kind      |-> first.action,
                   sizing           |-> [amount     |-> first.amount,
                                         pot_before |-> first.pot_before],
                   context          |-> [players_to_river |-> players_to_river,
                                         multiway         |-> players_to_river > 2,
                                         hero_ip          |-> hero_ip,
                                         hero_position    |-> pos,
                                         preflop_role     |-> role],
                   hand             |-> [base_from_turn_equity |-> base_from_turn_equity],
                   equity_estimate  |-> equity_estimate,
                   ev_estimate      |-> estimate_missed_value_ev_on_river(action_type,
                                            river_eq_value, first.pot_before, hero_ip,
                                            players_to_river > 2),
                   decision_quality |-> RiverDecisionQuality(action_type,
                                            IF IsSome(river_eq_value) THEN river_eq_value
                                            ELSE base_from_turn_equity,
                                            players_to_river > 2, hero_ip)])

-----------------------------------------------------------------------------
(* SpecFn: the pure functions called on their own. args holds the function
   name and the arguments of the call, ret what it returned. *)

MaxEvAmount == 2        \* largest pot_before and investment passed to ev_tools
MaxLines == 5           \* most lines of a text passed to split_into_hands


\* equities passed in, in thousandths; values outside [0, 1] included
EvEquities == {0 - 250, 0, 250, 500, 750, 1000, 1250}

\* river equities passed in, in thousandths, on both sides of both thresholds
RiverEquities == {20, 500, 649, 650, 651, 699, 700, 701, 899, 900, 950, 980}

\* strength scores and earlier equities passed to the turn and river
\* estimators, in thousandths; values outside [0, 1] included
StreetEquities == {0 - 500, 0, 30, 500, 645, 940, 1000, 2000}

\* rank and suit characters of a card token, in either case
KeyCards ==
    ({RANKS[i] : i \in 1..13} \union {"a", "k", "q", "j", "t"})
    \X {"h", "d", "c", "s", "H", "S"}

\* the calls: ev_call_check twice with two equities, compute_ev_estimate_v1,
\* normalize_hand_key on two cards in both orders, parse_board on the text
\* of five board cards in dealing order, load_mos_rfi_pack on range files
InitFn ==
    /\ pc = "call"
    /\ InitHand /\ InitFile /\ InitSeats
    /\ cached_pack = None
    /\ ret = None
    /\ \/ /\ default_rfi = <<>>
          /\ user_rfi = <<>>
          /\ \/ \E pb \in 0..MaxEvAmount, inv \in 0..MaxEvAmount,
                   x \in EvEquities, y \in EvEquities :
                   args = Some([fn |-> "ev_call_check", pot_before |-> pb,
                                investment |-> inv, e1 |-> x, e2 |-> y])
             \/ \E k \in {"fold", "check", "call", "bet", "raise", "other"},
                   pb \in {None} \union {Some(n) : n \in 0..MaxEvAmount},
                   inv \in {None} \union {Some(n) : n \in 0..MaxEvAmount},
                   eq \in {None} \union {Some(e) : e \in EvEquities},
                   fe \in {None, Some(30)} :
                   args = Some([fn |-> "compute_ev_estimate_v1", action_kind |-> k,
                                pot_before |-> pb, investment |-> inv,
                                estimated_equity |-> eq, fold_equity |-> fe])
             \/ \E c1 \in KeyCards, c2 \in KeyCards :
                   args = Some([fn |-> "normalize_hand_key", c1 |-> c1, c2 |-> c2])
             \/ \E d \in [1..5 -> {"Ah", "Kd", "7c", "7s", "2h"}], n \in {0, 3, 4, 5},
                   st \in {"earlier_then_new", "whole_board", "new_only", "summary_only"} :
                   /\ \A i, j \in 1..5 : i /= j => d[i] /= d[j]
                   /\ args = Some([fn |-> "parse_board", deal |-> d, dealt |-> n,
                                   style |-> st])
             \/ \E n \in 0..MaxLines : \E text \in [1..n -> {"", "  ", "a", "b"}] :
                   args = Some([fn |-> "split_into_hands", text |-> text])
             \/ \E k \in {"check", "bet_vs_check", "call_vs_bet"},
                   eq \in {None} \union {Some(e) : e \in RiverEquities},
                   pb \in {None} \union {Some(n) : n \in 0..MaxEvAmount},
                   ip \in BOOLEAN, mw \in BOOLEAN :
                   args = Some([fn |-> "estimate_missed_value_ev_on_river",
                                action_type |-> k, river_equity |-> eq,
                                pot_before |-> pb, hero_ip |-> ip, multiway |-> mw])
             \/ \E c1 \in KeyCards, c2 \in KeyCards :
                   /\ c1[2] \in {"h", "d"} /\ c2[2] \in {"h", "d"}
                   /\ args = Some([fn |-> "estimate_preflop_equity", c1 |-> c1, c2 |-> c2])
             \/ \E cat \in {None, Some("high_card"), Some("pair"), Some("set")},
                   pk \in {None, Some("top_pair"), Some("board_pair")},
                   sc \in {None} \union {Some(s) : s \in {0 - 100, 0, 20, 50, 78, 100, 200}},
                   mw \in BOOLEAN, ip \in BOOLEAN,
                   role \in {"aggressor", "caller", "unknown"} :
                   args = Some([fn |-> "estimate_flop_equity_simple", category |-> cat,
                                pair_kind |-> pk, strength_score |-> sc, multiway |-> mw,
                                hero_ip |-> ip, preflop_role |-> role])
             \/ \E st \in {None} \union {Some(s) : s \in StreetEquities},
                   fe \in {None, Some(50), Some(950)},
                   mw \in BOOLEAN, ip \in BOOLEAN,
                   role \in {"aggressor", "caller", "unknown"},
                   k \in {"bet_vs_check", "check", "call_vs_bet"} :
                   args = Some([fn |-> "estimate_turn_equity", approx_strength |-> st,
                                flop_equity |-> fe, multiway |-> mw, hero_ip |-> ip,
                                preflop_role |-> role, action_type |-> k])
             \/ \E base \in {None} \union {Some(s) : s \in StreetEquities},
                   mw \in BOOLEAN, ip \in BOOLEAN,
                   role \in {"aggressor", "caller", "unknown"},
                   k \in {"bet_vs_check", "check", "call_vs_bet"} :
                   args = Some([fn |-> "estimate_river_equity", base_from_turn |-> base,
                                multiway |-> mw, hero_ip |-> ip,
                                preflop_role |-> role, action_type |-> k])



       \/ /\ default_rfi \in {[pos \in StorePositions |-> None], DefaultChart}
          /\ user_rfi \in [StorePositions -> UserLists]
          /\ args = Some([fn |-> "load_mos_rfi_pack"])

CallEvCallCheck ==
    /\ pc = "call"
    /\ Val(args).fn = "ev_call_check"
    /\ ret' = Some([ev1 |-> ev_call_check(Val(args).pot_before, Val(args).investment,
                                          Val(args).e1),
                    ev2 |-> ev_call_check(Val(args).pot_before, Val(args).investment,
                                          Val(args).e2)])
    /\ pc' = "called"
    /\ UNCHANGED <<street, actions, pots, handVars, outVars, fileVars, posVars,
                   args, storeVars>>

CallComputeEvEstimate ==
    /\ pc = "call"
    /\ Val(args).fn = "compute_ev_estimate_v1"
    /\ ret' = Some(compute_ev_estimate_v1(Val(args).action_kind, Val(args).pot_before,
                                          Val(args).investment, Val(args).estimated_equity,
                                          Val(args).fold_equity, None))
    /\ pc' = "called"
    /\ UNCHANGED <<street, actions, pots, handVars, outVars, fileVars, posVars,
                   args, storeVars>>

CallNormalizeHandKey ==
    /\ pc = "call"
    /\ Val(args).fn = "normalize_hand_key"
    /\ ret' = Some([key |-> normalize_hand_key(<<Val(args).c1, Val(args).c2>>),
                    swapped |-> normalize_hand_key(<<Val(args).c2, Val(args).c1>>)])
    /\ pc' = "called"
    /\ UNCHANGED <<street, actions, pots, handVars, outVars, fileVars, posVars,
                   args, storeVars>>

CallParseBoard ==
    /\ pc = "call"
    /\ Val(args).fn = "parse_board"
    /\ ret' = Some(parse_board(BoardText(Val(args).deal, Val(args).dealt, Val(args).style)))
    /\ pc' = "called"
    /\ UNCHANGED <<street, actions, pots, handVars, outVars, fileVars, posVars,
                   args, storeVars>>

CallLoadMosRfiPack ==
    /\ pc = "call"
    /\ Val(args).fn = "load_mos_rfi_pack"
    /\ ret' = Some(load_mos_rfi_pack(default_rfi, user_rfi))
    /\ pc' = "called"
    /\ UNCHANGED <<street, actions, pots, handVars, outVars, fileVars, posVars,
                   args, storeVars>>

CallSplitIntoHands ==
    /\ pc = "call"
    /\ Val(args).fn = "split_into_hands"
    /\ ret' = Some(split_into_hands(Val(args).text))
    /\ pc' = "called"
    /\ UNCHANGED <<street, actions, pots, handVars, outVars, fileVars, posVars,
                   args, storeVars>>

CallEstimateMissedValue ==
    /\ pc = "call"
    /\ Val(args).fn = "estimate_missed_value_ev_on_river"
    /\ ret' = estimate_missed_value_ev_on_river(Val(args).action_type,
                  Val(args).river_equity, Val(args).pot_before,
                  Val(args).hero_ip, Val(args).multiway)
    /\ pc' = "called"
    /\ UNCHANGED <<street, actions, pots, handVars, outVars, fileVars, posVars,
                   args, storeVars>>

CallEstimatePreflopEquity ==
    /\ pc = "call"
    /\ Val(args).fn = "estimate_preflop_equity"
    /\ ret' = Some(estimate_preflop_equity(<<Val(args).c1, Val(args).c2>>))
    /\ pc' = "called"
    /\ UNCHANGED <<street, actions, pots, handVars, outVars, fileVars, posVars,
                   args, storeVars>>

CallEstimateFlopEquity ==
    /\ pc = "call"
    /\ Val(args).fn = "estimate_flop_equity_simple"
    /\ ret' = estimate_flop_equity_simple(Val(args).category, Val(args).pair_kind,
                  Val(args).strength_score, Val(args).multiway, Val(args).hero_ip,
                  Val(args).preflop_role)
    /\ pc' = "called"
    /\ UNCHANGED <<street, actions, pots, handVars, outVars, fileVars, posVars,
                   args, storeVars>>

CallEstimateTurnEquity ==
    /\ pc = "call"
    /\ Val(args).fn = "estimate_turn_equity"
    /\ ret' = estimate_turn_equity(Val(args).approx_strength, Val(args).flop_equity,
                  Val(args).multiway, Val(args).hero_ip, Val(args).preflop_role,
                  Val(args).action_type)
    /\ pc' = "called"
    /\ UNCHANGED <<street, actions, pots, handVars, outVars, fileVars, posVars,
                   args, storeVars>>

CallEstimateRiverEquity ==
    /\ pc = "call"
    /\ Val(args).fn = "estimate_river_equity"
    /\ \E tie_up \in BOOLEAN :
          ret' = estimate_river_equity(Val(args).base_from_turn, Val(args).multiway,
                     Val(args).hero_ip, Val(args).preflop_role, Val(args).action_type,
                     tie_up)
    /\ pc' = "called"
    /\ UNCHANGED <<street, actions, pots, handVars, outVars, fileVars, posVars,
                   args, storeVars>>

NextFn ==
    \/ CallEvCallCheck
    \/ CallComputeEvEstimate
    \/ CallNormalizeHandKey
    \/ CallParseBoard
    \/ CallLoadMosRfiPack
    \/ CallSplitIntoHands
    \/ CallEstimateMissedValue
    \/ CallEstimatePreflopEquity
    \/ CallEstimateFlopEquity
    \/ CallEstimateTurnEquity
    \/ CallEstimateRiverEquity

SpecFn == InitFn /\ [][NextFn]_vars

C_Called(fn) == pc = "called" /\ IsSome(args) /\ Val(args).fn = fn

C12_MissingInputs ==
    C_Called("compute_ev_estimate_v1") =>
        /\ IsSome(ret)
        /\ Val(ret).ev_action = Val(ret).ev
        /\ Val(ret).model = "v1_baseline"
        /\ (IsNone(Val(args).pot_before) \/ IsNone(Val(args).estimated_equity)) =>
              /\ Val(ret).ev = 0
              /\ Val(ret).ev_action_label = "missing_inputs"
              /\ Val(ret).explanation = "insufficient_inputs"
        /\ (/\ IsSome(Val(args).pot_before) /\ IsSome(Val(args).estimated_equity)
            /\ IsNone(Val(args).investment)) =>
              /\ Val(ret).ev = 0
              /\ IF Val(args).action_kind \in {"check", "fold"}
                 THEN /\ Val(ret).ev_action_label = Val(args).action_kind
                      /\ Val(ret).explanation = "passive_without_investment"
                 ELSE /\ Val(ret).ev_action_label = "missing_investment"
                      /\ Val(ret).explanation = "no_investment"

\* a raise without investment, and a record with a non-zero EV elsewhere
C12_Witness ==
    /\ C_Called("compute_ev_estimate_v1")
    /\ Val(args).action_kind = "raise"
    /\ IsSome(Val(args).pot_before)
    /\ IsSome(Val(args).estimated_equity)
    /\ IsNone(Val(args).investment)
    /\ Val(ret).ev_action_label = "missing_investment"
    /\ Val(ret).ev = 0

\* the key the claim describes, from the set of the two ranks
C13_Expected(c1, c2) ==
    LET idx  == {RankToIndex(GetRank(c1)), RankToIndex(GetRank(c2))}
        high == RANKS[SetMax(idx)]
        low  == RANKS[SetMin(idx)]
    IN  IF Cardinality(idx) = 1 THEN high \o high
        ELSE high \o low \o (IF GetSuit(c1) = GetSuit(c2) THEN "s" ELSE "o")

\* C13: normalize_hand_key gives the same key for both orders of the two
\* cards: the pair key when the ranks match, otherwise the higher rank, the
\* lower rank, then s for equal suits and o for different suits.
C13_OrderIndependentKey ==
    C_Called("normalize_hand_key") =>
        /\ Val(ret).key = Val(ret).swapped
        /\ Val(ret).key = C13_Expected(Val(args).c1, Val(args).c2)

\* Kd, Ah gives AKo although the lower card comes first
C13_Witness ==
    /\ C_Called("normalize_hand_key")
    /\ Val(args).c1 = <<"K", "d">>
    /\ Val(args).c2 = <<"A", "h">>
    /\ Val(ret).key = "AKo"
    /\ Val(ret).swapped = "AKo"

\* the hands a raw list names
C14_Hands(values) ==
    IF IsNone(values) THEN {}
    ELSE {Strip(e.text) : e \in {x \in {Val(values)[i] : i \in 1..Len(Val(values))} : x.str}} \ {""}

\* C14: for each position the loaded set is the set of the user list's hands
\* when the user list is non-empty, and the base list's set when the user
\* list is empty or absent.
C14_UserReplacesBase ==
    C_Called("load_mos_rfi_pack") =>
        \A pos \in StorePositions :
            IF IsSome(user_rfi[pos]) /\ Val(user_rfi[pos]) # <<>>
            THEN Val(ret).rfi[pos] = C14_Hands(user_rfi[pos])
            ELSE Val(ret).rfi[pos] = C14_Hands(default_rfi[pos])

\* a user list at EP next to a different base list, an empty user list at MP
C14_Witness ==
    /\ C_Called("load_mos_rfi_pack")
    /\ default_rfi = DefaultChart
    /\ to_set_list(user_rfi["EP"]) = {"72o", "TT"}
    /\ user_rfi["MP"] = Some(<<>>)
    /\ Val(ret).rfi["EP"] = {"72o", "TT"}
    /\ Val(ret).rfi["MP"] = {"65s"}

\* C20: the parsed board is the dealt cards in dealing order, each once: the
\* flop cards first, then the newly dealt turn card, then the newly dealt
\* river card, also when a marker line repeats the earlier board in a first
\* bracket group; it never has more than 5 cards.
C20_BoardInDealingOrder ==
    C_Called("parse_board") =>
        /\ Val(ret) = SubSeq(Val(args).deal, 1, Val(args).dealt)
        /\ Len(Val(ret)) <= 5

\* the lines of the text that are neither empty nor whitespace only
C27_NonBlank(i) == Val(args).text[i] \notin {"", "  "}

\* the first lines of the maximal runs of non-blank lines
C27_Starts ==
    {i \in 1..Len(Val(args).text) :
        C27_NonBlank(i) /\ (i = 1 \/ ~C27_NonBlank(i - 1))}

\* the last line of the maximal run that starts at line i
C27_End(i) ==
    SetMax({j \in i..Len(Val(args).text) : \A k \in i..j : C27_NonBlank(k)})

\* the first line of the k-th run
C27_Start(k) ==
    CHOOSE i \in C27_Starts : Cardinality({j \in C27_Starts : j <= i}) = k

\* C27: the blocks split_into_hands returns are exactly the maximal runs of
\* consecutive non-blank lines of the text, in order; no block is empty, no
\* block holds a blank line, and repeated, leading or trailing blank lines
\* give no extra block.
C27_BlocksAreMaximalRuns ==
    C_Called("split_into_hands") =>
        /\ Len(Val(ret)) = Cardinality(C27_Starts)
        /\ \A k \in 1..Len(Val(ret)) :
              /\ Val(ret)[k] = SubSeq(Val(args).text, C27_Start(k), C27_End(C27_Start(k)))
              /\ Val(ret)[k] /= <<>>
              /\ \A i \in 1..Len(Val(ret)[k]) : Val(ret)[k][i] \notin {"", "  "}

\* a text with a leading blank line, two blank lines between two blocks and
\* none at the end: two blocks, the last one flushed after the loop
C27_Witness ==
    /\ C_Called("split_into_hands")
    /\ Val(args).text = <<"", "a", "", "  ", "b">>
    /\ Val(ret) = <<(<<"a">>), (<<"b">>)>>

\* C26: every equity estimate that is reported lies in the clamp range of its
\* street, whatever the strength score, the earlier equity, the multiway,
\* position and role flags and the action: preflop in [0.35, 0.80], flop and
\* turn in [0.05, 0.95], river in [0.02, 0.98].
C26_EquityInClampRange ==
    /\ C_Called("estimate_preflop_equity")
          => Val(ret).estimated_equity_vs_unknown \in 350..800
    /\ (C_Called("estimate_flop_equity_simple") /\ IsSome(ret))
          => Val(ret).estimated_equity \in 50..950
    /\ (C_Called("estimate_turn_equity") /\ IsSome(ret))
          => Val(ret).estimated_equity \in 50..950
    /\ (C_Called("estimate_river_equity") /\ IsSome(ret))
          => Val(ret).estimated_equity \in 20..980

\* a turn estimate from a strength score of 2.0: the sum is far above the
\* range and the estimate is 0.95
C26_Witness ==
    /\ C_Called("estimate_turn_equity")
    /\ Val(args).approx_strength = Some(2000)
    /\ IsSome(ret)
    /\ Val(ret).estimated_equity = 950

\* the condition under which the river missed value is flagged
C28_Flagged ==
    /\ Val(args).action_type = "check"
    /\ Val(args).hero_ip
    /\ IsSome(Val(args).pot_before) /\ Val(Val(args).pot_before) > 0
    /\ IsSome(Val(args).river_equity)
    /\ Val(Val(args).river_equity) >= (IF Val(args).multiway THEN 700 ELSE 650)

\* C28: _estimate_missed_value_ev_on_river flags missed value exactly when the
\* river action is a check, the hero is in position, pot_before > 0 and the
\* river equity is at least the threshold (0.65 heads-up, 0.70 multiway); the
\* loss is pot_before * f * min(equity - threshold, 0.25) / 0.25 with f = 0.25
\* heads-up and 0.15 multiway, never above that fraction f of pot_before, and
\* it is reported as a non-positive ev_action.
C28_RiverMissedValue ==
    C_Called("estimate_missed_value_ev_on_river") =>
        /\ IsSome(ret) <=> C28_Flagged
        /\ IsSome(ret) =>
              LET f == IF Val(args).multiway THEN 15 ELSE 25
                  p == Val(Val(args).pot_before)
                  d == Min(Val(Val(args).river_equity)
                           - (IF Val(args).multiway THEN 700 ELSE 650), 250)
                  m == 0 - Val(ret).ev_action
              IN  /\ m * 100 * 250 = p * f * d * MissedScale
                  /\ m * 100 <= p * f * MissedScale
                  /\ Val(ret).ev_action <= 0

\* a multiway check in position with equity 0.90 and pot 2: the loss is
\* 2 * 0.15 * 0.20 / 0.25 = 0.24
C28_Witness ==
    /\ C_Called("estimate_missed_value_ev_on_river")
    /\ Val(args).multiway /\ Val(args).hero_ip /\ Val(args).action_type = "check"
    /\ Val(args).river_equity = Some(900)
    /\ Val(args).pot_before = Some(2)
    /\ ret = Some([ev_action |-> 0 - 2400, model |-> "river_missed_value_v1"])

-----------------------------------------------------------------------------
(* SpecStore: one process calling get_mos_rfi_pack and mos_min_position
   while the user range file is rewritten. ret.pack is the pack the call
   worked on; ret.stale says whether the files read afresh at the time of
   the call would have given another pack. *)

InitStoreCalls ==
    /\ pc = "call"
    /\ InitHand /\ InitFile /\ InitSeats /\ InitCall
    /\ default_rfi = DefaultChart
    /\ user_rfi \in [StorePositions -> UserLists]
    /\ cached_pack = None

\* save_json of the range editor, or any other writer of ranges/user_rfi.json
SaveUserRfi ==
    /\ \E pos \in StorePositions, l \in UserLists :
          /\ user_rfi[pos] # l
          /\ user_rfi' = [user_rfi EXCEPT ![pos] = l]
    /\ UNCHANGED <<pc, street, actions, pots, handVars, outVars, fileVars, posVars,
                   callVars, default_rfi, cached_pack>>

CallGetMosRfiPack ==
    /\ cached_pack' = get_mos_rfi_pack(cached_pack, default_rfi, user_rfi)
    /\ args' = Some([fn |-> "get_mos_rfi_pack", hand_key |-> ""])
    /\ ret' = Some([pack  |-> Val(cached_pack'),
                    pos   |-> None,
                    stale |-> Val(cached_pack') # load_mos_rfi_pack(default_rfi, user_rfi)])
    /\ pc' = "called"
    /\ UNCHANGED <<street, actions, pots, handVars, outVars, fileVars, posVars,
                   default_rfi, user_rfi>>

CallMosMinPosition ==
    /\ \E hand_key \in {"TT", "65s", "72o"} :
          /\ cached_pack' = get_mos_rfi_pack(cached_pack, default_rfi, user_rfi)
          /\ args' = Some([fn |-> "mos_min_position", hand_key |-> hand_key])
          /\ ret' = Some([pack  |-> Val(cached_pack'),
                          pos   |-> StoreMinPosition(Val(cached_pack'), hand_key),
                          stale |-> Val(cached_pack') # load_mos_rfi_pack(default_rfi, user_rfi)])
    /\ pc' = "called"
    /\ UNCHANGED <<street, actions, pots, handVars, outVars, fileVars, posVars,
                   default_rfi, user_rfi>>

NextStore == SaveUserRfi \/ CallGetMosRfiPack \/ CallMosMinPosition

SpecStore == InitStoreCalls /\ [][NextStore]_vars

\* C15: the pack is loaded at most once: once a call has produced a pack,
\* the cached pack never changes and every later call works on that pack,
\* whatever the range files hold by then.
C15_LoadedOnce ==
    [][/\ IsSome(cached_pack) => cached_pack' = cached_pack
       /\ (args' # args \/ ret' # ret) =>
              (IsSome(cached_pack') /\ Val(ret').pack = Val(cached_pack'))]_vars

\* a lookup answered from the cached pack after the user file had changed
C15_Witness ==
    /\ C_Called("mos_min_position")
    /\ Val(ret).stale
    /\ Val(ret).pack = Val(cached_pack)
    /\ Val(ret).pack # load_mos_rfi_pack(default_rfi, user_rfi)

\* C16: the minimum position the preflop engine puts into
\* hero_preflop_equity.mos_min_position for a hand key equals the range
\* store's mos_min_position for that key under the merged pack.
C16_EngineUsesRangeStore ==
    C_Called("mos_min_position") =>
        get_mos_min_position(Val(args).hand_key) = Val(ret).pos

-----------------------------------------------------------------------------
(* SpecFlop: compute_hero_flop_decision over the flop actions of one hand *)

MaxFlopActions == 3     \* most action lines on the flop

InitFlop ==
    /\ pc = "parse"
    /\ street = "flop"
    /\ actions = <<>>
    /\ pots = NoPots
    /\ hero_name = Some(Hero)
    /\ hero_cards = <<<<"T", "d">>, <<"T", "h">>>>
    /\ hero_position \in {Some("BB"), Some("BTN")}
    /\ effective_stack_bb = None
    /\ analysis = None
    /\ preflop_decision = None
    /\ flop_decision = None
    /\ turn_decision = None
    /\ InitFile /\ InitSeats /\ InitCall /\ InitStore

FlopParseLine ==
    /\ Len(actions) < MaxFlopActions
    /\ \E l \in ({Hero} \X {"check", "bet", "call", "fold", "uncalled"})
                  \union ({"V1"} \X {"check", "bet", "call", "fold", "uncalled"})
                  \union ({"V2"} \X {"check", "call"}) :
          ParseActionLine(l[1], l[2], 1)

ComputeHeroFlopDecision ==
    /\ pc = "annotated"
    /\ \E hand \in FlopHands :
          flop_decision' = HeroFlopDecision(actions, hero_name, hero_position,
                                            analysis, hand)
    /\ pc' = "built"
    /\ UNCHANGED <<street, actions, pots, handVars, analysis, preflop_decision,
                   turn_decision, fileVars, posVars, callVars, storeVars>>

NextFlop == FlopParseLine \/ Annotate \/ ComputeHeroFlopDecision

SpecFlop == InitFlop /\ [][NextFlop]_vars

\* every other player who acts on the flop has acted before the hero's first
\* action other than an uncalled return
C17_OthersActedBeforeHero ==
    LET flop_actions == OnStreet(actions, "flop")
        idx_first    == IndexOf(flop_actions, HeroStreetActions(actions, Val(hero_name), "flop")[1])
    IN  \A i \in 1..Len(flop_actions) :
            flop_actions[i].player /= Val(hero_name) =>
                \E j \in 1..(idx_first - 1) : flop_actions[j].player = flop_actions[i].player

\* C17: hero_in_position of the flop context is true exactly when every
\* other player who acts on the flop has acted before the hero's first
\* action; what the others do later in response does not turn it false.
C17_HeroInPosition ==
    (pc = "built" /\ IsSome(flop_decision)) =>
        (Val(flop_decision).context.hero_ip <=> C17_OthersActedBeforeHero)

-----------------------------------------------------------------------------
(* SpecStreets: the three street engines called one after the other on the
   flop, turn and river actions of one hand; the hero is on the button and
   has either opened the pot with a raise or taken no preflop action.
   After the turn engine ret holds its frame when the call raised; after
   the river engine ret holds the river decision. *)

MaxStreetActions == 3   \* most postflop actions of one hand

InitStreets ==
    /\ pc = "parse"
    /\ street = "flop"
    /\ actions \in {<<>>, <<[street |-> "preflop", player |-> Hero, action |-> "raise",
                            amount |-> Some(2), pot_before |-> None,
                            pot_after |-> None]>>}
    /\ pots = NoPots
    /\ hero_name = Some(Hero)
    /\ hero_cards = <<<<"T", "d">>, <<"T", "h">>>>
    /\ hero_position = Some("BTN")
    /\ effective_stack_bb = None
    /\ analysis = HeroPreflopAnalysis(actions, hero_name, hero_position, None)
    /\ preflop_decision = None
    /\ flop_decision = None
    /\ turn_decision = None
    /\ InitFile /\ InitSeats /\ InitCall /\ InitStore

StreetsParseMarker == \E m \in {"TURN", "RIVER"} : ForwardMarker(m) /\ ParseStreetMarker(m)

StreetsParseLine ==
    /\ Len(SelectSeq(actions, LAMBDA a : a.street /= "preflop")) < MaxStreetActions
    /\ \E l \in ({Hero} \X {"check", "bet", "call"})
                  \union ({"V1"} \X {"check", "bet"})
                  \union ({"V2"} \X {"check"}) :
          ParseActionLine(l[1], l[2], 1)

\* evaluate_hero_turn_decision called on the hand: it returns None, or it
\* raises at its EV estimate and its frame stays with the traceback
EvaluateHeroTurnDecision ==
    /\ pc = "built"
    /\ IF TurnDecisionRaises(actions, hero_name)
       THEN /\ ret' = Some(HeroTurnFrame(actions, hero_name, hero_position, analysis,
                                         flop_decision))
            /\ result' = "raised"
       ELSE /\ ret' = None
            /\ result' = result
    /\ turn_decision' = None
    /\ pc' = "turn"
    /\ UNCHANGED <<street, actions, pots, handVars, analysis, preflop_decision,
                   flop_decision, hand_texts, hands_objects, posVars, args, storeVars>>

\* evaluate_hero_river_decision called with the two earlier decisions
EvaluateHeroRiverDecision ==
    /\ pc = "turn"
    /\ \E tie_up \in BOOLEAN :
          ret' = HeroRiverDecision(actions, hero_name, hero_position, analysis,
                                   flop_decision, turn_decision, tie_up)
    /\ pc' = "river"
    /\ UNCHANGED <<street, actions, pots, handVars, outVars, fileVars, posVars,
                   args, storeVars>>

NextStreets ==
    \/ StreetsParseMarker
    \/ StreetsParseLine
    \/ Annotate
    \/ ComputeHeroFlopDecision
    \/ EvaluateHeroTurnDecision
    \/ EvaluateHeroRiverDecision

SpecStreets == InitStreets /\ [][NextStreets]_vars

\* the position, in the whole list, of the hero's first action on a street
\* that is not an uncalled return (0 when there is none)
C_StreetFirst(st) ==
    LET I == {i \in 1..Len(actions) :
                 /\ actions[i].street = st
                 /\ actions[i].player = Hero
                 /\ actions[i].action /= "uncalled"}
    IN  IF I = {} THEN 0 ELSE SetMin(I)

\* a bet or raise stands on the street before the hero's first action
C_StreetFacing(st) ==
    \E j \in 1..(C_StreetFirst(st) - 1) :
        actions[j].street = st /\ actions[j].action \in {"bet", "raise"}

\* the players who act on a street
C_StreetPlayers(st) ==
    {actions[i].player : i \in {j \in 1..Len(actions) : actions[j].street = st}}

\* the rule of the claim; "nothing preceded it" is read as "no bet or raise
\* preceded it", as in the other lines of the rule
C23_Rule(kind, facing) ==
    CASE kind = "check" -> "check"
      [] kind = "call"  -> IF facing THEN "call_vs_bet" ELSE "call"
      [] kind = "fold"  -> IF facing THEN "fold_vs_bet" ELSE "fold"
      [] kind = "bet"   -> IF ~facing THEN "bet_vs_check" ELSE "bet"
      [] kind = "raise" -> IF facing THEN "raise_vs_bet" ELSE "raise"

\* C23: on the flop, the turn and the river alike the hero's first action is
\* classified as check; call_vs_bet or call; fold_vs_bet or fold;
\* bet_vs_check when no bet or raise preceded the bet, else bet; raise_vs_bet
\* or raise -- the "_vs_bet" forms when a bet or raise preceded the action
\* on that street.
C23_PostflopActionType ==
    /\ (pc \in {"built", "turn", "river"} /\ IsSome(flop_decision))
          => Val(flop_decision).action_type =
                C23_Rule(actions[C_StreetFirst("flop")].action, C_StreetFacing("flop"))
    /\ (pc = "turn" /\ IsSome(ret))
          => Val(ret).action_type =
                C23_Rule(actions[C_StreetFirst("turn")].action, C_StreetFacing("turn"))
    /\ (pc = "river" /\ IsSome(ret))
          => Val(ret).action_type =
                C23_Rule(actions[C_StreetFirst("river")].action, C_StreetFacing("river"))

\* C24: the player count in every street decision's context is the number
\* of distinct players acting on that street, floored at 2 (also when only
\* the hero acts on the street), and multiway is true exactly when the count
\* is at least 3.
C24_PlayerCountFloor ==
    /\ (pc \in {"built", "turn", "river"} /\ IsSome(flop_decision))
          => /\ Val(flop_decision).context.players_to_flop =
                   Max(2, Cardinality(C_StreetPlayers("flop")))
             /\ Val(flop_decision).context.multiway
                   <=> (Val(flop_decision).context.players_to_flop >= 3)
    /\ (pc = "turn" /\ IsSome(ret))
          => /\ Val(ret).context.players_to_turn =
                   Max(2, Cardinality(C_StreetPlayers("turn")))
             /\ Val(ret).context.multiway <=> (Val(ret).context.players_to_turn >= 3)
    /\ (pc = "river" /\ IsSome(ret))
          => /\ Val(ret).context.players_to_river =
                   Max(2, Cardinality(C_StreetPlayers("river")))
             /\ Val(ret).context.multiway <=> (Val(ret).context.players_to_river >= 3)

\* C25: the turn engine's base equity is the equity estimate of the flop
\* decision; the river engine's base equity is the equity estimate of the
\* turn decision when it has one, else that of the flop decision; a street
\* with no earlier estimate reports no equity estimate.
C25_EquityPropagation ==
    /\ (pc = "turn" /\ IsSome(ret))
          => IF IsSome(DecisionEquity(flop_decision))
             THEN /\ IsSome(Val(ret).equity_estimate)
                  /\ Val(Val(ret).equity_estimate).explanation.base_value =
                        Val(DecisionEquity(flop_decision))
             ELSE IsNone(Val(ret).equity_estimate)
    /\ (pc = "river" /\ IsSome(ret))
          => /\ Val(ret).hand.base_from_turn_equity =
                   (IF IsSome(DecisionEquity(turn_decision))
                    THEN DecisionEquity(turn_decision)
                    ELSE DecisionEquity(flop_decision))
             /\ IsNone(Val(ret).hand.base_from_turn_equity)
                   => IsNone(Val(ret).equity_estimate)

\* the hero's first turn action is a check in position in a heads-up pot and
\* the flop category is one of the strong made hands
C21_StrongCheck ==
    /\ IsSome(ret)
    /\ Val(ret).action_type = "check"
    /\ Val(ret).context.hero_ip
    /\ ~Val(ret).context.multiway
    /\ Val(ret).hand.approx_category_from_flop \in
          {Some("two_pair"), Some("set"), Some("straight"), Some("flush"),
           Some("full_house"), Some("quads")}

\* C21: once the turn engine has run, the turn decision carries a
\* missed-value annotation exactly when the hero checked in position,
\* heads-up, with a flop category of two_pair, set, straight, flush,
\* full_house or quads, and its missed_value_ev is 0.35 * pot_before (35.0
\* for a set and pot_before = 100).
C21_TurnMissedValue ==
    (pc = "turn") =>
        /\ C21_StrongCheck
              => /\ IsSome(turn_decision)
                 /\ IsSome(Val(turn_decision).missed_value)
                 /\ IsSome(Val(ret).sizing.pot_before)
                       => 100 * Val(Val(turn_decision).missed_value).missed_value_ev =
                             35 * Val(Val(ret).sizing.pot_before)
        /\ (IsSome(turn_decision) /\ IsSome(Val(turn_decision).missed_value))
              => C21_StrongCheck

=============================================================================
